---- MODULE Spec2Model ----
(***************************************************************************)
(* flrtvc.py, check_epkgs: the interim-fix (efix) resolver.  For each       *)
(* downloaded epkg it reads the metadata printed by emgr, checks the        *)
(* fileset prerequisites against the installed levels, checks the files     *)
(* against those locked by installed efixes, orders the survivors by        *)
(* packaging date and drops those that a previous efix to install locks.    *)
(*                                                                         *)
(* Strings of the program are sequences of character codes, so that the     *)
(* messages it formats and the order in which Python sorts them are         *)
(* computed and not assumed.                                                *)
(***************************************************************************)
EXTENDS Integers, Sequences, FiniteSets, TLC

\* ---------------------------------------------------------------- bounds
\* longest list of epkgs handed to check_epkgs
MaxEpkgs == 2
\* most prerequisite lines in the metadata of one epkg
MaxPrereq == 2

\* ------------------------------------------------- text of the messages
\* ": prerequisite missing: "
TxtPrereqMissing ==
    <<58, 32, 112, 114, 101, 114, 101, 113, 117, 105, 115, 105, 116, 101, 32, 109, 105, 115, 115, 105, 110, 103, 58, 32>>

\* ": prerequisite "
TxtPrerequisite ==
    <<58, 32, 112, 114, 101, 114, 101, 113, 117, 105, 115, 105, 116, 101, 32>>

\* " levels do not satisfy condition string:                     "
TxtLevels ==
    <<32, 108, 101, 118, 101, 108, 115, 32, 100, 111, 32, 110, 111, 116, 32, 115, 97, 116, 105, 115, 102, 121, 32, 99, 111, 110, 100, 105, 116, 105, 111, 110, 32, 115, 116, 114, 105, 110, 103, 58, 32, 32, 32, 32, 32, 32, 32, 32, 32, 32, 32, 32, 32, 32, 32, 32, 32, 32, 32, 32, 32>>

\* " =< "
TxtLe ==
    <<32, 61, 60, 32>>

\* ": installed efix "
TxtInstalledEfix ==
    <<58, 32, 105, 110, 115, 116, 97, 108, 108, 101, 100, 32, 101, 102, 105, 120, 32>>

\* " is locking "
TxtIsLocking ==
    <<32, 105, 115, 32, 108, 111, 99, 107, 105, 110, 103, 32>>

\* ": locked by previous efix to install"
TxtLockedByPrevious ==
    <<58, 32, 108, 111, 99, 107, 101, 100, 32, 98, 121, 32, 112, 114, 101, 118, 105, 111, 117, 115, 32, 101, 102, 105, 120, 32, 116, 111, 32, 105, 110, 115, 116, 97, 108, 108>>

\* ------------------------------------------------ names used as inputs
\* "/w/a.epkg.Z"
PathA ==
    <<47, 119, 47, 97, 46, 101, 112, 107, 103, 46, 90>>

\* "/w/b.epkg.Z"
PathB ==
    <<47, 119, 47, 98, 46, 101, 112, 107, 103, 46, 90>>

\* "/w/c.epkg.Z"
PathC ==
    <<47, 119, 47, 99, 46, 101, 112, 107, 103, 46, 90>>

\* "/w/b.epkg.Z.bak"
PathD ==
    <<47, 119, 47, 98, 46, 101, 112, 107, 103, 46, 90, 46, 98, 97, 107>>

\* "IJ1"
LabelA ==
    <<73, 74, 49>>

\* "IJ2"
LabelB ==
    <<73, 74, 50>>

\* "/usr/sbin/tcpdump"
File1 ==
    <<47, 117, 115, 114, 47, 115, 98, 105, 110, 47, 116, 99, 112, 100, 117, 109, 112>>

\* "/usr/lib/boot/unix_64"
File2 ==
    <<47, 117, 115, 114, 47, 108, 105, 98, 47, 98, 111, 111, 116, 47, 117, 110, 105, 120, 95, 54, 52>>

\* "IV1"
EfixX ==
    <<73, 86, 49>>

\* "IV2"
EfixY ==
    <<73, 86, 50>>

\* "bos.net.tcp.server"
FsTcp ==
    <<98, 111, 115, 46, 110, 101, 116, 46, 116, 99, 112, 46, 115, 101, 114, 118, 101, 114>>

\* "openssl.base"
FsSsl ==
    <<111, 112, 101, 110, 115, 115, 108, 46, 98, 97, 115, 101>>

\* "bos.rte"
FsRte ==
    <<98, 111, 115, 46, 114, 116, 101>>

\* "7.1.3"
V713 ==
    <<55, 46, 49, 46, 51>>

\* "7.1.3.0"
V7130 ==
    <<55, 46, 49, 46, 51, 46, 48>>

\* "7.1.3.49"
V71349 ==
    <<55, 46, 49, 46, 51, 46, 52, 57>>

\* "7.1.3.50"
V71350 ==
    <<55, 46, 49, 46, 51, 46, 53, 48>>

\* "1.0.2.1500"
V1021500 ==
    <<49, 46, 48, 46, 50, 46, 49, 53, 48, 48>>

\* "1.0.2.1600"
V1021600 ==
    <<49, 46, 48, 46, 50, 46, 49, 54, 48, 48>>

\* "1.0.2.1601"
V1021601 ==
    <<49, 46, 48, 46, 50, 46, 49, 54, 48, 49>>

\* ------------------------------------------------------ Python primitives
\* a < b for two Python strings (sequences of character codes)
RECURSIVE str_lt(_, _)
str_lt(a, b) ==
    IF a = <<>> THEN b # <<>>
    ELSE IF b = <<>> THEN FALSE
    ELSE IF Head(a) # Head(b) THEN Head(a) < Head(b)
    ELSE str_lt(Tail(a), Tail(b))

\* a faulty variant of list_lt: zip-style comparison that stops at the shorter list,
\* so that a proper prefix counts as equal
RECURSIVE list_lt_zip(_, _)
list_lt_zip(a, b) ==
    IF a = <<>> \/ b = <<>> THEN FALSE
    ELSE IF Head(a) # Head(b) THEN Head(a) < Head(b)
    ELSE list_lt_zip(Tail(a), Tail(b))

\* a < b for two Python lists of integers: the first differing component
\* decides, and a proper prefix is smaller than the longer list
RECURSIVE list_lt(_, _)
list_lt(a, b) ==
    IF a = <<>> THEN b # <<>>
    ELSE IF b = <<>> THEN FALSE
    ELSE IF Head(a) # Head(b) THEN Head(a) < Head(b)
    ELSE list_lt(Tail(a), Tail(b))

list_gt(a, b) == list_lt(b, a)

\* s.split('.'): the pieces of s between the dots (code 46)
RECURSIVE split_dot(_, _)
split_dot(s, cur) ==
    IF s = <<>> THEN <<cur>>
    ELSE IF Head(s) = 46 THEN <<cur>> \o split_dot(Tail(s), <<>>)
    ELSE split_dot(Tail(s), Append(cur, Head(s)))

\* int(seg) for a piece made of decimal digits (codes 48..57)
RECURSIVE int_of(_, _)
int_of(seg, acc) ==
    IF seg = <<>> THEN acc
    ELSE int_of(Tail(seg), 10 * acc + (Head(seg) - 48))

\* list(map(int, lvl.split('.')))
lvl_int(lvl) ==
    LET parts == split_dot(lvl, <<>>)
    IN  [i \in DOMAIN parts |-> int_of(parts[i], 0)]

\* os.path.basename(path): what follows the last '/' (code 47)
RECURSIVE basename(_)
basename(path) ==
    IF \E i \in DOMAIN path : path[i] = 47
    THEN basename(Tail(path))
    ELSE path

\* x in a Python list
InList(x, l) == \E i \in DOMAIN l : l[i] = x

\* set(a).isdisjoint(set(b))
isdisjoint(a, b) == ~ \E i \in DOMAIN a : InList(a[i], b)

\* ------------------------------------------------------------ to_utc_epoch
\* The table of supported time zones, in half hours so that IST (5.5 h)
\* stays an integer: shift[TZ] * 3600 = ShiftHalf[TZ] * 1800.
ShiftHalf ==
    [tz \in {"CDT", "CEST", "CET", "CST", "CT", "EDT", "EET", "EST", "ET",
             "IST", "JST", "MSK", "MT", "NZST", "PDT", "PST", "SAST", "UTC",
             "WEST", "WET"} |->
        CASE tz = "CDT" -> -10 [] tz = "CEST" -> 4 [] tz = "CET" -> 2
          [] tz = "CST" -> -12 [] tz = "CT" -> -12 [] tz = "EDT" -> -8
          [] tz = "EET" -> 4 [] tz = "EST" -> -10 [] tz = "ET" -> -10
          [] tz = "IST" -> 11 [] tz = "JST" -> 18 [] tz = "MSK" -> 6
          [] tz = "MT" -> 4 [] tz = "NZST" -> 24 [] tz = "PDT" -> -14
          [] tz = "PST" -> -16 [] tz = "SAST" -> 4 [] tz = "UTC" -> 0
          [] tz = "WEST" -> 2 [] tz = "WET" -> 0]

\* datetime.date(year, month, day).toordinal(), as strptime and
\* calendar.timegm compute it
IsLeap(y) == (y % 4 = 0 /\ y % 100 # 0) \/ y % 400 = 0

DaysInMonth(y, m) ==
    IF m \in {1, 3, 5, 7, 8, 10, 12} THEN 31
    ELSE IF m \in {4, 6, 9, 11} THEN 30
    ELSE IF IsLeap(y) THEN 29 ELSE 28

days_before_year(y) ==
    LET p == y - 1 IN p * 365 + p \div 4 - p \div 100 + p \div 400

RECURSIVE days_before_month(_, _)
days_before_month(y, m) ==
    IF m = 1 THEN 0 ELSE days_before_month(y, m - 1) + DaysInMonth(y, m - 1)

toordinal(y, m, d) == days_before_year(y) + days_before_month(y, m) + d

\* calendar._EPOCH_ORD, the ordinal of 1970-01-01
EPOCH_ORD == 719163

\* time.strptime(date, "%a %b %d %H:%M:%S %Z %Y") accepts the fields
\* tm = <<year, month, day, hour, minute, second>>
strptime_ok(tm) ==
    /\ tm[1] \in 1..9999
    /\ tm[2] \in 1..12
    /\ tm[3] \in 1..DaysInMonth(tm[1], tm[2])
    /\ tm[4] \in 0..23
    /\ tm[5] \in 0..59
    /\ tm[6] \in 0..61

\* calendar.timegm(datet)
timegm(tm) ==
    LET days == toordinal(tm[1], tm[2], 1) - EPOCH_ORD + tm[3] - 1
        hours == days * 24 + tm[4]
        minutes == hours * 60 + tm[5]
    IN  minutes * 60 + tm[6]

\* a faulty variant of to_utc_epoch: the shift is added
to_utc_epoch_add(date) ==
    IF date.fmt = "shape" THEN <<-1, "bad packaging date format">>
    ELSE IF date.fmt = "value" \/ ~ strptime_ok(date.tm)
    THEN <<-1, "EXCEPTION: cannot parse packaging date">>
    ELSE LET TZ0 == IF date.tz = "" THEN "UTC" ELSE date.tz
             TZ == IF TZ0 \in DOMAIN ShiftHalf THEN TZ0 ELSE "UTC"
         IN  <<timegm(date.tm) + ShiftHalf[TZ] * 1800, "">>

\* A packaging date is [fmt, tm, tz]: fmt tells whether the text has the
\* shape of a date ("ok"), matches neither pattern ("shape"), or matches
\* with a day or month name strptime does not know ("value"); tm holds the
\* numbers <<year, month, day, hour, minute, second>> of the text; tz is
\* the time zone token, "" when there is none.
\* Returns <<sec_from_epoch, msg>>.
to_utc_epoch(date) ==
    IF date.fmt = "shape" THEN <<-1, "bad packaging date format">>
    ELSE IF date.fmt = "value" \/ ~ strptime_ok(date.tm)
    THEN <<-1, "EXCEPTION: cannot parse packaging date">>
    ELSE LET TZ0 == IF date.tz = "" THEN "UTC" ELSE date.tz
             known == TZ0 \in DOMAIN ShiftHalf
             TZ == IF known THEN TZ0 ELSE "UTC"
             msg == IF known THEN "" ELSE "Unsuported Time Zone: \"TZ\", using \"UTC\""
         IN  <<timegm(date.tm) - ShiftHalf[TZ] * 1800, msg>>

\* ------------------------------------------------------------- the state
VARIABLES
    epkg_list,          \* argument: the paths of the epkgs to check
    lpps,               \* argument: fileset -> [str, int] installed level
    efixes,             \* argument: the installed efixes, in dict order
    emgr_out,           \* emgr_out[i]: what the emgr command prints for epkg_list[i]
    pc,                 \* where check_epkgs stands
    idx,                \* position of the first loop in epkg_list
    locked_files,       \* file -> label of the installed efix locking it
    epkgs_info,         \* the epkgs kept so far, in dict insertion order
    epkgs_reject,       \* the reasons of the rejected epkgs
    sorted_epkgs,       \* paths ordered by packaging date
    walk,               \* position of the interlock loop in sorted_epkgs
    global_file_locks,  \* files of the epkgs kept by the interlock loop
    removed_epkg,       \* paths the interlock loop rejects
    messages,           \* results['meta']['messages']
    log                 \* lines handed to module.log

\* the state of a run of the flrtvc module (main and the functions it calls)
VARIABLES
    params,             \* module.params: force, clean, check_only, download_only, extend_fs
    stale,              \* the output files an earlier run left in the work directory
    mpc,                \* where the main thread stands
    THRDS,              \* the threads started through start_threaded
    thd,                \* thread -> [st, rc]: its position and the rc of its command
    join_i,             \* position of the loop of wait_all in THRDS
    workdir_exists,     \* os.path.exists(workdir)
    workdir_files,      \* the output files present in the work directory
    calls,              \* the functions called and commands run, in order
    ret,                \* what run_flrtvc and run_installer returned
    results,            \* results: changed, msg, and how the module ended
    epkgs,              \* run_installer: its argument, results['meta']['4.2.check']
    epkg_i,             \* run_installer: position of the loop in epkgs
    attempt,            \* run_installer: attempt number of the copy
    epkgs_base,         \* run_installer: the fixes to hand to geninstall
    copied,             \* the fixes present in the lpp source directory
    geninstall          \* the argument list of the geninstall command that ran

\* a call of to_utc_epoch
VARIABLES
    date_arg,           \* the packaging date given to to_utc_epoch
    epoch_ret           \* what to_utc_epoch returned, <<>> before it returns

\* a run of the route module
VARIABLES
    route_params,       \* module.params of route
    netstat,            \* the lines "netstat -rn" prints: <<route_entry, gateway_entry>>
    rpc,                \* where run_route_command stands
    check_result,       \* what check_destination_in_routing_table returned
    route_cmd,          \* the route commands that were run
    route_exit          \* how the module ended: [how, changed]

\* a run of the snap module
VARIABLES
    snap_params,        \* module.params of snap
    snap_free_mb,       \* free space of "/" in MB, as shutil.disk_usage reports it
    snap_out,           \* what module.run_command returns or raises: [rc, stdout, raises]
    snpc,               \* where main of snap stands
    snap_cmd,           \* the command build_snap_command returned
    snap_result         \* how the module ended: [how, changed, msg]

\* a run of the password_rules_policies module
VARIABLES
    pw_params,          \* module.params and module.check_mode
    secfile,            \* /etc/security/user, the stanza: attribute -> value, "" if unset
    secfile_before,     \* the stanza as it was when the module started
    pw_i,               \* position of the loop of run_chsec in the attributes
    pw_calls,           \* the lssec and chsec commands run, in order
    pw_results          \* results of run_chsec and how the module ended

\* a run of the suma module with action preview or download
VARIABLES
    suma_params,        \* suma_params and module.check_mode
    supc,               \* where main and suma_download stand
    suma_calls,         \* the suma requests and commands run, in order
    suma_counts,        \* downloaded, failed, skipped as last parsed from stdout
    suma_results        \* results: changed, and how the module ended

\* a run of the emgr module
VARIABLES
    emgr_params,        \* module.params and module.check_mode
    empc,               \* where main of emgr stands
    emgr_checks,        \* the calls of param_one_of made: [list, required, exclusive]
    emgr_cmd,           \* the emgr command built
    emgr_ran,           \* the emgr commands run
    emgr_results        \* results: changed, msg, and how the module ended

\* a call of unzip or of run_downloader of flrtvc
VARIABLES
    dl_params,          \* the function called, resize_fs, wget, the urls
    dlpc,               \* where the function stands
    dl_i,               \* run_downloader: position of the loop in urls
    dl_m,               \* run_downloader: position of the loop in the epkgs of a tar file
    dl_attempt,         \* run_downloader: attempt number of the extraction
    dl_files,           \* the destination files present
    dl_existed,         \* download: dst was there when download was called
    dl_last_rc,         \* download: exit code of the last wget of the call, -1 if none ran
    dl_ret,             \* what download or unzip returned last
    dl_extracted,       \* the epkgs tar.extract wrote
    dl_download         \* out['3.download']

epkgsVars == <<epkg_list, lpps, efixes, emgr_out, pc, idx, locked_files, epkgs_info,
               epkgs_reject, sorted_epkgs, walk, global_file_locks, removed_epkg,
               messages, log>>

thrVars == <<THRDS, thd, join_i>>

dirVars == <<workdir_exists, workdir_files>>

instVars == <<epkgs, epkg_i, attempt, epkgs_base, copied, geninstall>>

mainVars == <<params, stale, mpc, thrVars, dirVars, calls, ret, results, instVars>>

convVars == <<date_arg, epoch_ret>>

routeVars == <<route_params, netstat, rpc, check_result, route_cmd, route_exit>>

snapVars == <<snap_params, snap_free_mb, snap_out, snpc, snap_cmd, snap_result>>

pwVars == <<pw_params, secfile, secfile_before, pw_i, pw_calls, pw_results>>

sumaVars == <<suma_params, supc, suma_calls, suma_counts, suma_results>>

emgrVars == <<emgr_params, empc, emgr_checks, emgr_cmd, emgr_ran, emgr_results>>

dlVars == <<dl_params, dlpc, dl_i, dl_m, dl_attempt, dl_files, dl_existed, dl_last_rc,
            dl_ret, dl_extracted, dl_download>>

\* the state of the modules other than flrtvc and route, and of the calls of
\* the download functions of flrtvc
toolVars == <<snapVars, pwVars, sumaVars, emgrVars, dlVars>>

\* what is not the state of the run of snap
notSnap == <<epkgsVars, mainVars, convVars, routeVars, pwVars, sumaVars, emgrVars, dlVars>>

\* what is not the state of the run of password_rules_policies
notPw == <<epkgsVars, mainVars, convVars, routeVars, snapVars, sumaVars, emgrVars, dlVars>>

\* what is not the state of the run of suma
notSuma == <<epkgsVars, mainVars, convVars, routeVars, snapVars, pwVars, emgrVars, dlVars>>

\* what is not the state of the run of emgr
notEmgr == <<epkgsVars, mainVars, convVars, routeVars, snapVars, pwVars, sumaVars, dlVars>>

\* what is not the state of a call of unzip or run_downloader
notDl == <<epkgsVars, mainVars, convVars, routeVars, snapVars, pwVars, sumaVars, emgrVars>>

\* what is neither the state of check_epkgs nor that of the run of flrtvc
restVars == <<convVars, routeVars, toolVars>>

vars == <<epkgsVars, mainVars, restVars>>

\* what is not the state of check_epkgs
notEpkgs == <<mainVars, restVars>>

\* what is not the state of the run of flrtvc, besides check_epkgs
notMain == restVars

\* no call of to_utc_epoch is under way
IdleConv ==
    /\ date_arg = <<>>
    /\ epoch_ret = <<>>

\* no run of the snap module is under way
IdleSnap ==
    /\ snap_params = <<>>
    /\ snap_free_mb = 0
    /\ snap_out = <<>>
    /\ snpc = "idle"
    /\ snap_cmd = <<>>
    /\ snap_result = [how |-> "", changed |-> FALSE, msg |-> ""]

\* no run of the password_rules_policies module is under way
IdlePw ==
    /\ pw_params = <<>>
    /\ secfile = <<>>
    /\ secfile_before = <<>>
    /\ pw_i = 0
    /\ pw_calls = <<>>
    /\ pw_results = [how |-> "", changed |-> FALSE, attrs |-> <<>>]

\* no run of the suma module is under way
IdleSuma ==
    /\ suma_params = <<>>
    /\ supc = "idle"
    /\ suma_calls = <<>>
    /\ suma_counts = [downloaded |-> 0, failed |-> 0, skipped |-> 0]
    /\ suma_results = [how |-> "", changed |-> FALSE]

\* no run of the emgr module is under way
IdleEmgr ==
    /\ emgr_params = <<>>
    /\ empc = "idle"
    /\ emgr_checks = <<>>
    /\ emgr_cmd = <<>>
    /\ emgr_ran = <<>>
    /\ emgr_results = [how |-> "", changed |-> FALSE, msg |-> ""]

\* no call of unzip or run_downloader is under way
IdleDl ==
    /\ dl_params = <<>>
    /\ dlpc = "idle"
    /\ dl_i = 0
    /\ dl_m = 0
    /\ dl_attempt = 0
    /\ dl_files = {}
    /\ dl_existed = FALSE
    /\ dl_last_rc = -1
    /\ dl_ret = "none"
    /\ dl_extracted = {}
    /\ dl_download = <<>>

\* no run of a module other than flrtvc and route is under way
IdleTools ==
    /\ IdleSnap
    /\ IdlePw
    /\ IdleSuma
    /\ IdleEmgr
    /\ IdleDl

\* no run of the route module is under way
IdleRoute ==
    /\ route_params = <<>>
    /\ netstat = <<>>
    /\ rpc = "idle"
    /\ check_result = "none"
    /\ route_cmd = <<>>
    /\ route_exit = [how |-> "", changed |-> FALSE]

\* ------------------------------------------------------ lines of stdout
\* A line of the emgr output is [t, v, minlvl, maxlvl, d]; t tells which of
\* the patterns of the parsing loop the line matches.
NoDate == [fmt |-> "shape", tm |-> <<0, 0, 0, 0, 0, 0>>, tz |-> ""]
LabelLine(label) == [t |-> "LABEL", v |-> label, minlvl |-> <<>>, maxlvl |-> <<>>, d |-> NoDate]
DateLine(date) == [t |-> "DATE", v |-> <<>>, minlvl |-> <<>>, maxlvl |-> <<>>, d |-> date]
PackageLine(fs) == [t |-> "PACKAGE", v |-> fs, minlvl |-> <<>>, maxlvl |-> <<>>, d |-> NoDate]
LocationLine(f) == [t |-> "LOCATION", v |-> f, minlvl |-> <<>>, maxlvl |-> <<>>, d |-> NoDate]
PrereqLine(fs, lo, hi) == [t |-> "PREREQ", v |-> fs, minlvl |-> lo, maxlvl |-> hi, d |-> NoDate]
CommentLine == [t |-> "COMMENT", v |-> <<>>, minlvl |-> <<>>, maxlvl |-> <<>>, d |-> NoDate]

\* ------------------------------------------------------------ check_epkgs
\* a faulty variant of build_locked_files: only the files of the first installed efix
\* are entered
build_locked_files_first(efs, acc) ==
    IF efs = <<>> THEN acc
    ELSE [f \in DOMAIN acc \cup {efs[1].files[i] : i \in DOMAIN efs[1].files} |->
             IF f \in DOMAIN acc THEN acc[f] ELSE efs[1].label]

\* the dictionary of files locked by installed efixes: the first efix that
\* names a file keeps it
RECURSIVE build_locked_files(_, _)
build_locked_files(efs, acc) ==
    IF efs = <<>> THEN acc
    ELSE LET efix == Head(efs)
             new == {efix.files[i] : i \in DOMAIN efix.files} \ DOMAIN acc
         IN  build_locked_files(Tail(efs),
                 [f \in DOMAIN acc \cup new |->
                     IF f \in DOMAIN acc THEN acc[f] ELSE efix.label])

\* a faulty variant of new_epkg: an epkg starts with epoch 0
new_epkg_epoch_zero(path) ==
    [path |-> path, label |-> <<>>, pkg_date |-> <<>>, sec_from_epoch |-> 0,
     filesets |-> <<>>, files |-> <<>>, prereq |-> <<>>, reject |-> <<>>]

\* the epkg dictionary a candidate starts with
new_epkg(path) ==
    [path |-> path, label |-> <<>>, pkg_date |-> <<>>, sec_from_epoch |-> -1,
     filesets |-> <<>>, files |-> <<>>, prereq |-> <<>>, reject |-> <<>>]

msg_prereq_missing(path, prereq) ==
    basename(path) \o TxtPrereqMissing \o prereq

msg_levels(path, prereq, minlvl, str, maxlvl) ==
    basename(path) \o TxtPrerequisite \o prereq \o TxtLevels
        \o minlvl \o TxtLe \o str \o TxtLe \o maxlvl

msg_installed_lock(path, efix, file) ==
    basename(path) \o TxtInstalledEfix \o efix \o TxtIsLocking \o file

msg_previous_lock(path) ==
    basename(path) \o TxtLockedByPrevious

\* a faulty variant of out_of_range: the upper end of the range is not tested
out_of_range_min_only(installed, minlvl, maxlvl) ==
    list_lt(installed, lvl_int(minlvl))

\* the range test of one prerequisite line: TRUE when the installed level
\* is outside [minlvl, maxlvl]
out_of_range(installed, minlvl, maxlvl) ==
    list_lt(installed, lvl_int(minlvl)) \/ list_gt(installed, lvl_int(maxlvl))

\* prereq not in lpps
prereq_missing(prereq, lpps_lvl) == prereq \notin DOMAIN lpps_lvl

\* epkg['prereq'][prereq] = {'minlvl': ..., 'maxlvl': ...}: a dict, a later
\* line for the same fileset replaces the earlier one
set_prereq(prereqs, line) ==
    IF \E i \in DOMAIN prereqs : prereqs[i].v = line.v
    THEN [i \in DOMAIN prereqs |-> IF prereqs[i].v = line.v THEN line ELSE prereqs[i]]
    ELSE Append(prereqs, line)

\* the parsing loop over the lines of stdout, with its prerequisite checks;
\* a failing prerequisite sets epkg['reject'] and breaks out of the loop
RECURSIVE parse_lines(_, _, _)

\* a faulty variant of prereq_failed: no break, the remaining lines are read and a
\* later failing prerequisite replaces the reason
prereq_failed_continue(epkg, rest, lpps_lvl) == parse_lines(epkg, rest, lpps_lvl)

\* break: the lines after a failing prerequisite are not read
prereq_failed(epkg, rest, lpps_lvl) == epkg

parse_lines(epkg, lines, lpps_lvl) ==
    IF lines = <<>> THEN epkg
    ELSE LET line == Head(lines)
             rest == Tail(lines)
         IN  IF line.t = "COMMENT" THEN parse_lines(epkg, rest, lpps_lvl)
             ELSE IF epkg.label = <<>> /\ line.t = "LABEL"
             THEN parse_lines([epkg EXCEPT !.label = line.v], rest, lpps_lvl)
             ELSE IF epkg.pkg_date = <<>> /\ line.t = "DATE"
             THEN parse_lines([epkg EXCEPT !.pkg_date = <<line.d>>], rest, lpps_lvl)
             ELSE IF line.t = "PACKAGE"
             THEN parse_lines(
                      IF InList(line.v, epkg.filesets) THEN epkg
                      ELSE [epkg EXCEPT !.filesets = Append(@, line.v)],
                      rest, lpps_lvl)
             ELSE IF line.t = "LOCATION"
             THEN parse_lines(
                      IF InList(line.v, epkg.files) THEN epkg
                      ELSE [epkg EXCEPT !.files = Append(@, line.v)],
                      rest, lpps_lvl)
             ELSE IF line.t # "PREREQ" THEN parse_lines(epkg, rest, lpps_lvl)
             ELSE LET e1 == [epkg EXCEPT !.prereq = set_prereq(@, line)]
                  IN  IF prereq_missing(line.v, lpps_lvl)
                      THEN prereq_failed(
                               [e1 EXCEPT !.reject = msg_prereq_missing(epkg.path, line.v)],
                               rest, lpps_lvl)
                      ELSE IF out_of_range(lpps_lvl[line.v].int, line.minlvl, line.maxlvl)
                      THEN prereq_failed(
                               [e1 EXCEPT !.reject =
                                   msg_levels(epkg.path, line.v, line.minlvl,
                                              lpps_lvl[line.v].str, line.maxlvl)],
                               rest, lpps_lvl)
                      ELSE parse_lines(e1, rest, lpps_lvl)

\* the loop over the files of an epkg that survived the prerequisites: the
\* reasons it appends to epkgs_reject (its continue goes on with the next
\* file of the same epkg)
RECURSIVE installed_lock_rejects(_, _, _)
installed_lock_rejects(path, files, locked) ==
    IF files = <<>> THEN <<>>
    ELSE IF Head(files) \in DOMAIN locked
    THEN <<msg_installed_lock(path, locked[Head(files)], Head(files))>>
             \o installed_lock_rejects(path, Tail(files), locked)
    ELSE installed_lock_rejects(path, Tail(files), locked)

\* epkgs_info[path] = epkg.copy(): a dict, in insertion order
put_info(info, epkg) ==
    IF \E i \in DOMAIN info : info[i].path = epkg.path
    THEN [i \in DOMAIN info |-> IF info[i].path = epkg.path THEN epkg ELSE info[i]]
    ELSE Append(info, epkg)

\* sorted(..., key=sec_from_epoch, reverse=True): stable, equal keys keep
\* the order they had
RECURSIVE sort_by_date(_)

\* a faulty variant of insert_by_date: ascending order (reverse=True forgotten)
insert_by_date_asc(sorted, e) ==
    LET ahead == {i \in DOMAIN sorted : sorted[i].sec_from_epoch <= e.sec_from_epoch}
        k == IF ahead = {} THEN 0 ELSE CHOOSE i \in ahead : \A j \in ahead : j <= i
    IN  SubSeq(sorted, 1, k) \o <<e>> \o SubSeq(sorted, k + 1, Len(sorted))

\* a faulty variant of insert_by_date: descending, but equal keys end up in reverse
\* input order (sort ascending, then reverse the list)
insert_by_date_unstable(sorted, e) ==
    LET ahead == {i \in DOMAIN sorted : sorted[i].sec_from_epoch > e.sec_from_epoch}
        k == IF ahead = {} THEN 0 ELSE CHOOSE i \in ahead : \A j \in ahead : j <= i
    IN  SubSeq(sorted, 1, k) \o <<e>> \o SubSeq(sorted, k + 1, Len(sorted))

insert_by_date(sorted, e) ==
    LET ahead == {i \in DOMAIN sorted : sorted[i].sec_from_epoch >= e.sec_from_epoch}
        k == IF ahead = {} THEN 0 ELSE CHOOSE i \in ahead : \A j \in ahead : j <= i
    IN  SubSeq(sorted, 1, k) \o <<e>> \o SubSeq(sorted, k + 1, Len(sorted))

sort_by_date(info) ==
    IF info = <<>> THEN <<>>
    ELSE insert_by_date(sort_by_date(SubSeq(info, 1, Len(info) - 1)), info[Len(info)])

\* sorted(epkgs_reject): the reasons as Python orders strings
RECURSIVE sort_reject(_)
insert_reject(sorted, r) ==
    LET ahead == {i \in DOMAIN sorted : ~ str_lt(r, sorted[i])}
        k == IF ahead = {} THEN 0 ELSE CHOOSE i \in ahead : \A j \in ahead : j <= i
    IN  SubSeq(sorted, 1, k) \o <<r>> \o SubSeq(sorted, k + 1, Len(sorted))

sort_reject(rejects) ==
    IF rejects = <<>> THEN <<>>
    ELSE insert_reject(sort_reject(SubSeq(rejects, 1, Len(rejects) - 1)),
                       rejects[Len(rejects)])

\* the entry of epkgs_info for a path
info_of(info, path) == info[CHOOSE i \in DOMAIN info : info[i].path = path]

\* list.remove(x): drops the first occurrence of x
RECURSIVE remove_first(_, _)
remove_first(l, x) ==
    IF l = <<>> THEN <<>>
    ELSE IF Head(l) = x THEN Tail(l)
    ELSE <<Head(l)>> \o remove_first(Tail(l), x)

\* for epkg in removed_epkg: sorted_epkgs.remove(epkg)
RECURSIVE remove_all(_, _)
remove_all(paths, removed) ==
    IF removed = <<>> THEN paths
    ELSE remove_all(remove_first(paths, Head(removed)), Tail(removed))

\* what the body of the first loop makes of one epkg: the epkg dictionary,
\* the reasons appended to epkgs_reject, the messages and log lines, and
\* whether the epkg is entered in epkgs_info
check_one(path, out, lpps_lvl, locked) ==
    LET failed == IF out.rc # 0
                  THEN <<[kind |-> "cannot_get_info", text |-> path]>>
                  ELSE <<>>
        e1 == parse_lines(new_epkg(path), out.stdout, lpps_lvl)
        lockr == installed_lock_rejects(path, e1.files, locked)
        conv == IF e1.pkg_date # <<>> THEN to_utc_epoch(e1.pkg_date[1]) ELSE <<-1, "">>
    IN  IF e1.reject # <<>>
        THEN [epkg |-> e1, rejects |-> <<e1.reject>>, keep |-> FALSE,
              msgs |-> failed,
              logs |-> failed \o <<[kind |-> "reject", text |-> e1.reject]>>]
        ELSE IF lockr # <<>>
        THEN [epkg |-> [e1 EXCEPT !.reject = lockr[Len(lockr)]],
              rejects |-> lockr, keep |-> FALSE,
              msgs |-> failed \o [i \in DOMAIN lockr |->
                                    [kind |-> "installed_lock", text |-> lockr[i]]],
              logs |-> failed \o [i \in DOMAIN lockr |->
                                    [kind |-> "reject", text |-> lockr[i]]]]
        ELSE [epkg |-> IF e1.pkg_date # <<>>
                       THEN [e1 EXCEPT !.sec_from_epoch = conv[1]] ELSE e1,
              rejects |-> <<>>, keep |-> TRUE,
              msgs |-> failed,
              logs |-> failed \o
                       (IF e1.pkg_date # <<>> /\ conv[1] = -1
                        THEN <<[kind |-> "date", text |-> path, msg |-> conv[2]]>>
                        ELSE <<>>)]

\* a faulty variant of not_interlocked: only the first file of the epkg is looked up
not_interlocked_first_file(files, file_locks) ==
    files = <<>> \/ ~ InList(files[1], file_locks)

\* the test of the interlock loop: the epkg is kept when none of its files
\* is among the files of the epkgs kept before it
not_interlocked(files, file_locks) == isdisjoint(files, file_locks)

\* ---------------------------------------------------------------- inputs
PathPool == <<PathA, PathB, PathC, PathD>>

\* "Mon Oct  9 10:00:00 UTC 2017" and two dates in CDT, one the same instant
\* as the first ("Mon Oct  9 05:00:00 CDT 2017"), one five hours later
DateA == [fmt |-> "ok", tm |-> <<2017, 10, 9, 10, 0, 0>>, tz |-> "UTC"]
DateB == [fmt |-> "ok", tm |-> <<2017, 10, 9, 5, 0, 0>>, tz |-> "CDT"]
DateC == [fmt |-> "ok", tm |-> <<2017, 10, 9, 10, 0, 0>>, tz |-> "CDT"]

DateLinesPool == {<<>>, <<DateLine(DateA)>>, <<DateLine(DateB)>>, <<DateLine(DateC)>>}

FileSeqPool == {<<>>, <<File1>>, <<File2>>, <<File1, File2>>}

LocationLines(files) == [i \in DOMAIN files |-> LocationLine(files[i])]

EfixesPool ==
    { <<>>,
      <<[label |-> EfixX, files |-> <<File1>>]>>,
      <<[label |-> EfixX, files |-> <<File2>>]>>,
      <<[label |-> EfixX, files |-> <<File1, File2>>]>>,
      <<[label |-> EfixX, files |-> <<File1>>], [label |-> EfixY, files |-> <<File1>>]>>,
      <<[label |-> EfixX, files |-> <<File1>>], [label |-> EfixY, files |-> <<File1, File2>>]>> }

\* an entry of the lpps dictionary, as parse_lpps_info builds it for a
\* level made of digits and dots
lpp(str) == [str |-> str, int |-> lvl_int(str)]

\* the installed levels: a fileset is absent or at one of these levels
LppsPool ==
    { [fs \in D |-> IF fs = FsTcp THEN lpp(t) ELSE lpp(s)] :
          D \in SUBSET {FsTcp, FsSsl},
          t \in {V713, V7130, V71349, V71350},
          s \in {V1021500, V1021600, V1021601} }

LppsBase == [fs \in {FsTcp, FsSsl} |-> IF fs = FsTcp THEN lpp(V71349) ELSE lpp(V1021600)]

PrereqPool ==
    { PrereqLine(FsTcp, V7130, V71349),
      PrereqLine(FsTcp, V7130, V71350),
      PrereqLine(FsSsl, V1021500, V1021600),
      PrereqLine(FsRte, V7130, V71350) }

RECURSIVE SeqsUpTo(_, _)
SeqsUpTo(S, n) ==
    IF n = 0 THEN {<<>>}
    ELSE LET shorter == SeqsUpTo(S, n - 1)
         IN  shorter \cup {Append(s, x) : s \in shorter, x \in S}

\* the epkgs differ in files and packaging date and declare no prerequisite
InitLocks ==
    \E n \in 1..MaxEpkgs :
        /\ epkg_list = SubSeq(PathPool, 1, n)
        /\ emgr_out \in [1..n ->
               {[rc |-> 0,
                 stdout |-> <<LabelLine(LabelA)>> \o d \o <<PackageLine(FsTcp)>>
                                \o LocationLines(f)] :
                    d \in DateLinesPool, f \in FileSeqPool}]
        /\ lpps = LppsBase
        /\ efixes \in EfixesPool

\* one epkg declares prerequisites, the installed levels vary, and the emgr
\* command may fail
InitPrereq ==
    /\ epkg_list = <<PathA, PathB>>
    /\ \E rc \in {0, 1}, p \in SeqsUpTo(PrereqPool, MaxPrereq) :
           emgr_out =
               << [rc |-> rc,
                   stdout |-> <<CommentLine, LabelLine(LabelA), DateLine(DateC),
                                PackageLine(FsTcp), LocationLine(File1)>> \o p],
                  [rc |-> 0,
                   stdout |-> <<LabelLine(LabelB), DateLine(DateA),
                                PackageLine(FsSsl), LocationLine(File2)>>] >>
    /\ lpps \in LppsPool
    /\ efixes = <<>>

\* the epkgs differ in path and label and most of them are rejected, each
\* for one of the three kinds of reason
RejectOutputs ==
    { [rc |-> 0, stdout |-> <<LabelLine(l)>> \o body] :
          l \in {LabelA, LabelB},
          body \in { <<DateLine(DateA), LocationLine(File2)>>,
                     <<DateLine(DateA), LocationLine(File1)>>,
                     <<DateLine(DateA), PrereqLine(FsRte, V7130, V71350)>> } }

\* packaging dates that do not convert, or convert with the default zone:
\* a two-digit year, an unknown day name, a day the month does not have,
\* a time zone missing from the table; and a date in IST, the same instant
\* as DateA
DateBadShape == [fmt |-> "shape", tm |-> <<17, 10, 9, 10, 0, 0>>, tz |-> "CDT"]
DateBadName == [fmt |-> "value", tm |-> <<2017, 10, 9, 10, 0, 0>>, tz |-> "CDT"]
DateBadDay == [fmt |-> "ok", tm |-> <<2017, 2, 29, 10, 0, 0>>, tz |-> "UTC"]
DateUnknownZone == [fmt |-> "ok", tm |-> <<2017, 10, 9, 10, 0, 0>>, tz |-> "AEST"]
DateIST == [fmt |-> "ok", tm |-> <<2017, 10, 9, 15, 30, 0>>, tz |-> "IST"]

OddDateLinesPool ==
    {<<>>, <<DateLine(DateBadShape)>>, <<DateLine(DateBadName)>>,
     <<DateLine(DateBadDay)>>, <<DateLine(DateUnknownZone)>>, <<DateLine(DateIST)>>,
     <<DateLine(DateA)>>, <<DateLine(DateB)>>}

\* the epkgs differ in packaging date, some of which do not convert, and
\* may touch the same file
InitDates ==
    \E n \in 1..MaxEpkgs :
        /\ epkg_list = SubSeq(PathPool, 1, n)
        /\ emgr_out \in [1..n ->
               {[rc |-> 0,
                 stdout |-> <<LabelLine(LabelA)>> \o d \o <<PackageLine(FsTcp)>>
                                \o LocationLines(f)] :
                    d \in OddDateLinesPool, f \in {<<File1>>, <<File1, File2>>}}]
        /\ lpps = LppsBase
        /\ efixes = <<>>

InitReject ==
    \E n \in 1..MaxEpkgs :
        /\ epkg_list \in {s \in [1..n -> {PathPool[i] : i \in DOMAIN PathPool}] :
                              \A i, j \in 1..n : i # j => s[i] # s[j]}
        /\ emgr_out \in [1..n -> RejectOutputs]
        /\ lpps = LppsBase
        /\ efixes = <<[label |-> EfixX, files |-> <<File1>>]>>

\* no run of the module is under way
IdleMain ==
    /\ params = [force |-> FALSE, clean |-> FALSE, check_only |-> FALSE,
                 download_only |-> FALSE, extend_fs |-> FALSE]
    /\ stale = {}
    /\ mpc = "idle"
    /\ THRDS = <<>>
    /\ thd = <<>>
    /\ join_i = 1
    /\ workdir_exists = TRUE
    /\ workdir_files = {}
    /\ calls = <<>>
    /\ ret = [run_flrtvc |-> "none", run_installer |-> "none"]
    /\ results = [changed |-> FALSE, msg |-> "", ended |-> ""]
    /\ epkgs = <<>>
    /\ epkg_i = 1
    /\ attempt = 0
    /\ epkgs_base = <<>>
    /\ copied = {}
    /\ geninstall = [ran |-> FALSE, efixes |-> <<>>]

Init ==
    /\ \/ InitLocks
       \/ InitPrereq
       \/ InitReject
       \/ InitDates
    /\ pc = "locked_files"
    /\ idx = 1
    /\ locked_files = <<>>
    /\ epkgs_info = <<>>
    /\ epkgs_reject = <<>>
    /\ sorted_epkgs = <<>>
    /\ walk = 1
    /\ global_file_locks = <<>>
    /\ removed_epkg = <<>>
    /\ messages = <<>>
    /\ log = <<>>
    /\ IdleMain
    /\ IdleConv
    /\ IdleRoute
    /\ IdleTools

\* --------------------------------------------------------------- actions
\* the loop that builds locked_files from the installed efixes
LockedFiles ==
    /\ pc = "locked_files"
    /\ locked_files' = build_locked_files(efixes, <<>>)
    /\ pc' = "epkgs"
    /\ UNCHANGED <<epkg_list, lpps, efixes, emgr_out, idx, epkgs_info, epkgs_reject,
                   sorted_epkgs, walk, global_file_locks, removed_epkg, messages, log>>
    /\ UNCHANGED notEpkgs

\* one pass of "for epkg_path in epkg_list": run emgr, parse, check
GetEpkgInfo ==
    /\ pc = "epkgs"
    /\ idx <= Len(epkg_list)
    /\ LET r == check_one(epkg_list[idx], emgr_out[idx], lpps, locked_files)
       IN  /\ epkgs_reject' = epkgs_reject \o r.rejects
           /\ epkgs_info' = IF r.keep THEN put_info(epkgs_info, r.epkg) ELSE epkgs_info
           /\ messages' = messages \o r.msgs
           /\ log' = log \o r.logs
    /\ idx' = idx + 1
    /\ UNCHANGED <<epkg_list, lpps, efixes, emgr_out, pc, locked_files, sorted_epkgs,
                   walk, global_file_locks, removed_epkg>>
    /\ UNCHANGED notEpkgs

\* sort the epkgs by packaging date
SortEpkgs ==
    /\ pc = "epkgs"
    /\ idx > Len(epkg_list)
    /\ sorted_epkgs' = LET s == sort_by_date(epkgs_info)
                       IN  [i \in DOMAIN s |-> s[i].path]
    /\ global_file_locks' = <<>>
    /\ removed_epkg' = <<>>
    /\ walk' = 1
    /\ pc' = "interlock"
    /\ UNCHANGED <<epkg_list, lpps, efixes, emgr_out, idx, locked_files, epkgs_info,
                   epkgs_reject, messages, log>>
    /\ UNCHANGED notEpkgs

\* one pass of "for epkg in sorted_epkgs": exclude an interlocked epkg
Interlock ==
    /\ pc = "interlock"
    /\ walk <= Len(sorted_epkgs)
    /\ LET path == sorted_epkgs[walk]
           epkg == info_of(epkgs_info, path)
           reason == msg_previous_lock(epkg.path)
       IN  IF not_interlocked(epkg.files, global_file_locks)
           THEN /\ global_file_locks' = global_file_locks \o epkg.files
                /\ UNCHANGED <<epkgs_info, epkgs_reject, removed_epkg, messages, log>>
           ELSE /\ epkgs_info' = put_info(epkgs_info, [epkg EXCEPT !.reject = reason])
                /\ epkgs_reject' = Append(epkgs_reject, reason)
                /\ removed_epkg' = Append(removed_epkg, path)
                /\ messages' = Append(messages, [kind |-> "previous_lock", text |-> reason])
                /\ log' = Append(log, [kind |-> "reject", text |-> reason])
                /\ UNCHANGED global_file_locks
    /\ walk' = walk + 1
    /\ UNCHANGED <<epkg_list, lpps, efixes, emgr_out, pc, idx, locked_files, sorted_epkgs>>
    /\ UNCHANGED notEpkgs

\* drop the removed epkgs, sort the reject list and return
Return ==
    /\ pc = "interlock"
    /\ walk > Len(sorted_epkgs)
    /\ sorted_epkgs' = remove_all(sorted_epkgs, removed_epkg)
    /\ epkgs_reject' = sort_reject(epkgs_reject)
    /\ pc' = "done"
    /\ UNCHANGED <<epkg_list, lpps, efixes, emgr_out, idx, locked_files, epkgs_info,
                   walk, global_file_locks, removed_epkg, messages, log>>
    /\ UNCHANGED notEpkgs

Next ==
    \/ LockedFiles
    \/ GetEpkgInfo
    \/ SortEpkgs
    \/ Interlock
    \/ Return

Spec == Init /\ [][Next]_vars

\* =================================================== the run of the module
\* main of flrtvc.py and the functions it calls: the download of the flrtvc
\* script, run_flrtvc with its two worker threads, the exits on check_only
\* and download_only, and run_installer.  run_parser and run_downloader are
\* steps that leave the list of accepted fixes.

\* the longest list of accepted fixes handed to run_installer
MaxInstall == 3

\* "for attempt in range(3)"
MaxAttempts == 3

Workers == {"run_lslpp", "run_emgr"}

\* the file a worker thread writes
OutputOf(t) == IF t = "run_lslpp" THEN "lslpp.txt" ELSE "emgr.txt"

\* a faulty variant of remove_file: the file of the earlier run is left
remove_file_keep(files, f) == files

\* "if os.path.exists(file): os.remove(file)"
remove_file(files, f) == files \ {f}

\* a faulty variant of join_returns: join returns once the thread was started
join_returns_started(st) == st # "unstarted"

\* thd.join() returns when the thread has terminated
join_returns(st) == st = "terminated"

\* a faulty variant of check_only_test: the test never holds
check_only_never(p) == FALSE

\* "if check_only:"
check_only_test(p) == p.check_only

\* a faulty variant of download_only_test: the test never holds
download_only_never(p) == FALSE

\* "if download_only:"
download_only_test(p) == p.download_only

\* a faulty variant of append_base: the name is put in front
append_base_front(base, epkg) == <<basename(epkg)>> \o base

\* "epkgs_base.append(os.path.basename(epkg))"
append_base(base, epkg) == Append(base, basename(epkg))

\* ' '.join(epkgs_base)
RECURSIVE join_space(_)
join_space(l) ==
    IF l = <<>> THEN <<>>
    ELSE IF Len(l) = 1 THEN l[1]
    ELSE l[1] \o <<32>> \o join_space(Tail(l))

\* "if clean and os.path.exists(workdir): shutil.rmtree(workdir, ignore_errors=True)"
CleanWorkdir ==
    /\ workdir_exists' = (workdir_exists /\ ~ params.clean)
    /\ workdir_files' = IF params.clean THEN {} ELSE workdir_files

\* results['msg'] = msg; module.fail_json(**results)
fail_json(msg) ==
    /\ results' = [results EXCEPT !.msg = msg, !.ended = "fail_json"]
    /\ mpc' = "ended"

\* results['msg'] = msg; module.exit_json(**results)
exit_json(msg) ==
    /\ results' = [results EXCEPT !.msg = msg, !.ended = "exit_json"]
    /\ mpc' = "ended"

\* the lists check_epkgs can return as accepted: distinct paths
AcceptedPool ==
    {l \in SeqsUpTo({PathPool[i] : i \in DOMAIN PathPool}, MaxInstall) :
         \A i, j \in DOMAIN l : i # j => l[i] # l[j]}

\* check_epkgs is not running
IdleEpkgs ==
    /\ epkg_list = <<>>
    /\ lpps = <<>>
    /\ efixes = <<>>
    /\ emgr_out = <<>>
    /\ pc = "idle"
    /\ idx = 1
    /\ locked_files = <<>>
    /\ epkgs_info = <<>>
    /\ epkgs_reject = <<>>
    /\ sorted_epkgs = <<>>
    /\ walk = 1
    /\ global_file_locks = <<>>
    /\ removed_epkg = <<>>
    /\ messages = <<>>
    /\ log = <<>>

\* main has read its parameters and created the work directory
InitMain ==
    /\ params \in [force : BOOLEAN, clean : BOOLEAN, check_only : BOOLEAN,
                   download_only : BOOLEAN, extend_fs : BOOLEAN]
    /\ stale \in SUBSET {"lslpp.txt", "emgr.txt"}
    /\ mpc = "download"
    /\ THRDS = <<>>
    /\ thd = [t \in Workers |-> [st |-> "unstarted", rc |-> -1]]
    /\ join_i = 1
    /\ workdir_exists = TRUE
    /\ workdir_files = stale
    /\ calls = <<>>
    /\ ret = [run_flrtvc |-> "none", run_installer |-> "none"]
    /\ results = [changed |-> FALSE, msg |-> "", ended |-> ""]
    /\ epkgs = <<>>
    /\ epkg_i = 1
    /\ attempt = 0
    /\ epkgs_base = <<>>
    /\ copied = {}
    /\ geninstall = [ran |-> FALSE, efixes |-> <<>>]
    /\ IdleEpkgs
    /\ IdleConv
    /\ IdleRoute
    /\ IdleTools

\* what the steps of main leave alone besides the variables they name
epkgsButMessages == <<epkg_list, lpps, efixes, emgr_out, pc, idx, locked_files,
                      epkgs_info, epkgs_reject, sorted_epkgs, walk,
                      global_file_locks, removed_epkg, log>>

epkgsButLog == <<epkg_list, lpps, efixes, emgr_out, pc, idx, locked_files,
                 epkgs_info, epkgs_reject, sorted_epkgs, walk, global_file_locks,
                 removed_epkg, messages>>

\* download(flrtvczip, flrtvc_dst, resize_fs) and the exit when it fails
DownloadZip ==
    /\ mpc = "download"
    /\ calls' = Append(calls, "download")
    /\ \E ok \in BOOLEAN :
           IF ok
           THEN mpc' = "unzip" /\ UNCHANGED <<results, dirVars>>
           ELSE CleanWorkdir /\ fail_json("Failed to download FLRTVC-latest.zip")
    /\ UNCHANGED <<params, stale, thrVars, ret, instVars, epkgsVars, notMain>>

\* unzip(flrtvc_dst, flrtvc_dir, resize_fs) and the exit when it fails
Unzip ==
    /\ mpc = "unzip"
    /\ calls' = Append(calls, "unzip")
    /\ \E ok \in BOOLEAN :
           IF ok
           THEN mpc' = "run_flrtvc" /\ UNCHANGED <<results, dirVars>>
           ELSE CleanWorkdir /\ fail_json("Failed to unzip FLRTVC-latest.zip")
    /\ UNCHANGED <<params, stale, thrVars, ret, instVars, epkgsVars, notMain>>

\* run_flrtvc is entered: "if force: remove_efix()"
RemoveEfix ==
    /\ mpc = "run_flrtvc"
    /\ calls' = calls \o <<"run_flrtvc">>
                      \o (IF params.force THEN <<"remove_efix">> ELSE <<>>)
    /\ mpc' = "rm_lslpp"
    /\ UNCHANGED <<params, stale, thrVars, dirVars, ret, results, instVars, epkgsVars, notMain>>

\* the main thread removes the output file a worker is going to write
RemoveOutput(t, next) ==
    /\ workdir_files' = remove_file(workdir_files, OutputOf(t))
    /\ mpc' = next
    /\ UNCHANGED <<params, stale, thrVars, workdir_exists, calls, ret, results,
                   instVars, epkgsVars, notMain>>

\* start_threaded: thd.start(); thds.append(thd)
StartThread(t, next) ==
    /\ thd' = [thd EXCEPT ![t].st = "started"]
    /\ THRDS' = Append(THRDS, t)
    /\ mpc' = next
    /\ UNCHANGED <<params, stale, join_i, dirVars, calls, ret, results, instVars,
                   epkgsVars, notMain>>

RmLslpp == mpc = "rm_lslpp" /\ RemoveOutput("run_lslpp", "start_lslpp")

StartLslpp == mpc = "start_lslpp" /\ StartThread("run_lslpp", "rm_emgr")

RmEmgr == mpc = "rm_emgr" /\ RemoveOutput("run_emgr", "start_emgr")

StartEmgr == mpc = "start_emgr" /\ StartThread("run_emgr", "wait_all")

\* a worker thread runs its command
WorkerCommand(t) ==
    /\ thd[t].st = "started"
    /\ \E rc \in {0, 1} : thd' = [thd EXCEPT ![t] = [st |-> "ran", rc |-> rc]]
    /\ UNCHANGED <<params, stale, mpc, THRDS, join_i, dirVars, calls, ret, results,
                   instVars, epkgsVars, notMain>>

\* a worker thread writes its file when the command succeeded, and ends
WorkerWrite(t) ==
    /\ thd[t].st = "ran"
    /\ workdir_files' = IF thd[t].rc = 0 THEN workdir_files \cup {OutputOf(t)}
                        ELSE workdir_files
    /\ log' = IF thd[t].rc = 0 THEN log
               ELSE Append(log, [kind |-> "command_failed", text |-> <<>>])
    /\ thd' = [thd EXCEPT ![t].st = "terminated"]
    /\ UNCHANGED <<params, stale, mpc, THRDS, join_i, workdir_exists, calls, ret,
                   results, instVars, epkgsButLog, notMain>>

LslppCommand == WorkerCommand("run_lslpp")

LslppWrite == WorkerWrite("run_lslpp")

EmgrCommand == WorkerCommand("run_emgr")

EmgrWrite == WorkerWrite("run_emgr")

\* wait_all: one pass of "for thd in thds: thd.join()"
WaitAll ==
    /\ mpc = "wait_all"
    /\ join_i <= Len(THRDS)
    /\ join_returns(thd[THRDS[join_i]].st)
    /\ join_i' = join_i + 1
    /\ UNCHANGED <<params, stale, mpc, THRDS, thd, dirVars, calls, ret, results,
                   instVars, epkgsVars, notMain>>

\* run_flrtvc tests that both files exist; when one is missing it returns
\* False and main fails
TestFiles ==
    /\ mpc = "wait_all"
    /\ join_i > Len(THRDS)
    /\ IF "lslpp.txt" \notin workdir_files \/ "emgr.txt" \notin workdir_files
       THEN /\ ret' = [ret EXCEPT !.run_flrtvc = "False"]
            /\ messages' = messages
                   \o (IF "lslpp.txt" \notin workdir_files
                       THEN <<[kind |-> "no_file", text |-> "lslpp.txt"]>> ELSE <<>>)
                   \o (IF "emgr.txt" \notin workdir_files
                       THEN <<[kind |-> "no_file", text |-> "emgr.txt"]>> ELSE <<>>)
            /\ CleanWorkdir
            /\ fail_json("Failed to get vulnerabilities report, system will not be updated")
       ELSE /\ mpc' = "flrtvc"
            /\ UNCHANGED <<ret, messages, dirVars, results>>
    /\ UNCHANGED <<params, stale, thrVars, calls, instVars, epkgsButMessages, notMain>>

\* run_flrtvc runs the script and looks at its report
RunFlrtvcScript ==
    /\ mpc = "flrtvc"
    /\ calls' = Append(calls, "flrtvc.ksh")
    /\ \E rc \in {0, 1, 2}, no_vulnerabilities \in BOOLEAN :
           IF rc # 0 /\ rc # 2
           THEN /\ ret' = [ret EXCEPT !.run_flrtvc = "False"]
                /\ messages' = Append(messages, [kind |-> "flrtvc_rc", text |-> "flrtvc.ksh"])
                /\ CleanWorkdir
                /\ fail_json("Failed to get vulnerabilities report, system will not be updated")
           ELSE IF no_vulnerabilities
           THEN /\ exit_json("There are no vulnerabities. FLRTVC completed successfully")
                /\ UNCHANGED <<ret, messages, dirVars>>
           ELSE /\ ret' = [ret EXCEPT !.run_flrtvc = "True"]
                /\ mpc' = "check_only"
                /\ UNCHANGED <<messages, dirVars, results>>
    /\ UNCHANGED <<params, stale, thrVars, instVars, epkgsButMessages, notMain>>

\* the exit on check_only
CheckOnly ==
    /\ mpc = "check_only"
    /\ check_only_test(params)
    /\ CleanWorkdir
    /\ exit_json("exit on check only")
    /\ UNCHANGED <<params, stale, thrVars, calls, ret, instVars, epkgsVars, notMain>>

\* run_parser(results['meta']['0.report'], ...)
RunParser ==
    /\ mpc = "check_only"
    /\ ~ check_only_test(params)
    /\ calls' = Append(calls, "run_parser")
    /\ mpc' = "downloader"
    /\ UNCHANGED <<params, stale, thrVars, dirVars, ret, results, instVars, epkgsVars, notMain>>

\* run_downloader downloads the fixes and has check_epkgs accept some
RunDownloader ==
    /\ mpc = "downloader"
    /\ calls' = calls \o <<"run_downloader", "check_epkgs">>
    /\ epkgs' \in AcceptedPool
    /\ mpc' = "download_only"
    /\ UNCHANGED <<params, stale, thrVars, dirVars, ret, results, epkg_i, attempt,
                   epkgs_base, copied, geninstall, epkgsVars, notMain>>

\* the exit on download_only
DownloadOnly ==
    /\ mpc = "download_only"
    /\ download_only_test(params)
    /\ CleanWorkdir
    /\ exit_json("exit on download only")
    /\ UNCHANGED <<params, stale, thrVars, calls, ret, instVars, epkgsVars, notMain>>

\* run_installer is entered
RunInstaller ==
    /\ mpc = "download_only"
    /\ ~ download_only_test(params)
    /\ calls' = Append(calls, "run_installer")
    /\ IF epkgs = <<>>
       THEN /\ messages' = Append(messages, [kind |-> "no_epkg", text |-> <<>>])
            /\ ret' = [ret EXCEPT !.run_installer = "True"]
            /\ mpc' = "finish"
       ELSE /\ mpc' = "copy"
            /\ UNCHANGED <<messages, ret>>
    /\ epkg_i' = 1
    /\ attempt' = 0
    /\ epkgs_base' = <<>>
    /\ UNCHANGED <<params, stale, thrVars, dirVars, results, epkgs, copied, geninstall,
                   epkgsButMessages, notMain>>

\* one attempt of shutil.copy(epkg, destpath) in the loop over epkgs
CopyEpkg ==
    /\ mpc = "copy"
    /\ epkg_i <= Len(epkgs)
    /\ LET epkg == epkgs[epkg_i]
           cannot == [kind |-> "cannot_copy", text |-> epkg]
       IN  \E ok \in BOOLEAN :
               IF ok
               THEN /\ copied' = copied \cup {epkg}
                    /\ epkgs_base' = append_base(epkgs_base, epkg)
                    /\ epkg_i' = epkg_i + 1
                    /\ attempt' = 0
                    /\ UNCHANGED <<messages, calls>>
               ELSE IF ~ params.extend_fs
               THEN /\ messages' = Append(messages, cannot)
                    /\ epkgs_base' = append_base(epkgs_base, epkg)
                    /\ epkg_i' = epkg_i + 1
                    /\ attempt' = 0
                    /\ UNCHANGED <<copied, calls>>
               ELSE IF attempt + 1 < MaxAttempts
               THEN /\ calls' = Append(calls, "increase_fs")
                    /\ attempt' = attempt + 1
                    /\ UNCHANGED <<messages, epkgs_base, epkg_i, copied>>
               ELSE /\ calls' = Append(calls, "increase_fs")
                    /\ messages' = Append(messages, cannot)
                    /\ epkg_i' = epkg_i + 1
                    /\ attempt' = 0
                    /\ UNCHANGED <<epkgs_base, copied>>
    /\ UNCHANGED <<params, stale, mpc, thrVars, dirVars, ret, results, epkgs,
                   geninstall, epkgsButMessages, notMain>>

\* after the loop: nothing to install, or the geninstall command
Geninstall ==
    /\ mpc = "copy"
    /\ epkg_i > Len(epkgs)
    /\ IF epkgs_base = <<>>
       THEN /\ ret' = [ret EXCEPT !.run_installer = "False"]
            /\ UNCHANGED <<calls, geninstall, results, messages>>
       ELSE /\ calls' = Append(calls, "geninstall")
            /\ geninstall' = [ran |-> TRUE, efixes |-> join_space(epkgs_base)]
            /\ results' = [results EXCEPT !.changed = TRUE]
            /\ \E rc \in {0, 1} :
                   IF rc # 0
                   THEN /\ messages' = Append(messages, [kind |-> "geninstall_rc", text |-> <<>>])
                        /\ ret' = [ret EXCEPT !.run_installer = "False"]
                   ELSE /\ ret' = [ret EXCEPT !.run_installer = "True"]
                        /\ UNCHANGED messages
    /\ mpc' = "finish"
    /\ UNCHANGED <<params, stale, thrVars, dirVars, epkgs, epkg_i, attempt, epkgs_base,
                   copied, epkgsButMessages, notMain>>

\* main after run_installer: clean up and end
Finish ==
    /\ mpc = "finish"
    /\ CleanWorkdir
    /\ IF ret.run_installer = "False"
       THEN fail_json("Failed to install fixes, please check meta and log data.")
       ELSE exit_json("FLRTVC completed successfully")
    /\ UNCHANGED <<params, stale, thrVars, calls, ret, instVars, epkgsVars, notMain>>

NextMain ==
    \/ DownloadZip
    \/ Unzip
    \/ RemoveEfix
    \/ RmLslpp
    \/ StartLslpp
    \/ RmEmgr
    \/ StartEmgr
    \/ LslppCommand
    \/ LslppWrite
    \/ EmgrCommand
    \/ EmgrWrite
    \/ WaitAll
    \/ TestFiles
    \/ RunFlrtvcScript
    \/ CheckOnly
    \/ RunParser
    \/ RunDownloader
    \/ DownloadOnly
    \/ RunInstaller
    \/ CopyEpkg
    \/ Geninstall
    \/ Finish

SpecMain == InitMain /\ [][NextMain]_vars

\* ============================================================== properties
\* What the properties read from the inputs, without the program's parser.
\* the words of the reasons, as the properties quote them
\* "locked by previous efix to install"
QuoteLockedByPrevious ==
    <<108, 111, 99, 107, 101, 100, 32, 98, 121, 32, 112, 114, 101, 118, 105, 111, 117, 115, 32, 101, 102, 105, 120, 32, 116, 111, 32, 105, 110, 115, 116, 97, 108, 108>>

\* "prerequisite missing: "
QuotePrereqMissing ==
    <<112, 114, 101, 114, 101, 113, 117, 105, 115, 105, 116, 101, 32, 109, 105, 115, 115, 105, 110, 103, 58, 32>>

\* "prerequisite "
QuotePrerequisite ==
    <<112, 114, 101, 114, 101, 113, 117, 105, 115, 105, 116, 101, 32>>

\* "levels do not satisfy condition"
QuoteLevels ==
    <<108, 101, 118, 101, 108, 115, 32, 100, 111, 32, 110, 111, 116, 32, 115, 97, 116, 105, 115, 102, 121, 32, 99, 111, 110, 100, 105, 116, 105, 111, 110>>

Done == pc = "done"

Cands == DOMAIN epkg_list

\* the lines of a kind in what emgr printed for candidate i, in order
LinesOf(i, kind) ==
    SelectSeq(emgr_out[i].stdout, LAMBDA l : l.t = kind)

\* the file set of candidate i: the files of its LOCATION lines
FileSet(i) ==
    LET out == emgr_out[i].stdout
    IN  {out[k].v : k \in {k \in DOMAIN out : out[k].t = "LOCATION"}}

\* the prerequisite lines of candidate i, in declaration order
Prereqs(i) == LinesOf(i, "PREREQ")

Accepted(i) == InList(epkg_list[i], sorted_epkgs)

\* a is a prefix of b
IsPrefix(a, b) == Len(a) <= Len(b) /\ SubSeq(b, 1, Len(a)) = a

\* a is a suffix of b
IsSuffix(a, b) == Len(a) <= Len(b) /\ SubSeq(b, Len(b) - Len(a) + 1, Len(b)) = a

\* the entries of the rejected list that name candidate i: "<fix>: <reason>"
EntriesOf(i) ==
    {k \in DOMAIN epkgs_reject :
         IsPrefix(basename(epkg_list[i]) \o <<58, 32>>, epkgs_reject[k])}

\* integer vectors in lexicographic order, a proper prefix first: a <= b
\* when a is a prefix of b, or the first component where they differ is
\* smaller in a
LexLeq(a, b) ==
    \/ IsPrefix(a, b)
    \/ \E k \in DOMAIN a \cap DOMAIN b :
           /\ a[k] < b[k]
           /\ \A j \in 1..(k - 1) : a[j] = b[j]

\* the digits of a level, written as numbers
Digits(str) == lvl_int(str)

\* prerequisite line l holds on the installed levels
Satisfied(l) ==
    /\ l.v \in DOMAIN lpps
    /\ LexLeq(Digits(l.minlvl), lpps[l.v].int)
    /\ LexLeq(lpps[l.v].int, Digits(l.maxlvl))

\* the files of the installed efixes
InstalledFiles ==
    UNION {{efixes[e].files[k] : k \in DOMAIN efixes[e].files} : e \in DOMAIN efixes}

\* C1: after check_epkgs, the file sets of two different accepted
\* candidates are disjoint: no file is claimed by two accepted fixes.
C1_AcceptedFilesDisjoint ==
    Done => \A i, j \in Cands :
                (i # j /\ Accepted(i) /\ Accepted(j)) => FileSet(i) \cap FileSet(j) = {}

\* C1 witness: a run ends with two accepted candidates that each claim a
\* file.
C1_Witness ==
    /\ Done
    /\ \E i, j \in Cands :
           /\ i # j /\ Accepted(i) /\ Accepted(j)
           /\ FileSet(i) # {} /\ FileSet(j) # {}

\* C2: after check_epkgs, no accepted candidate touches a file of an
\* installed efix, also when several installed efixes claim that file.
C2_NoInstalledFileAccepted ==
    Done => \A i \in Cands : Accepted(i) => FileSet(i) \cap InstalledFiles = {}

\* C2 witness: a file is claimed by two installed efixes, a candidate that
\* touches it is rejected and a candidate with another file is accepted.
C2_Witness ==
    /\ Done
    /\ \E e1, e2 \in DOMAIN efixes, f \in InstalledFiles :
           /\ e1 # e2
           /\ InList(f, efixes[e1].files) /\ InList(f, efixes[e2].files)
           /\ \E i \in Cands : f \in FileSet(i) /\ ~ Accepted(i)
    /\ \E i \in Cands : Accepted(i) /\ FileSet(i) # {}

\* C3: after check_epkgs, every prerequisite line of every accepted
\* candidate names an installed fileset whose level is within
\* [minlvl, maxlvl].
C3_AcceptedPrereqsSatisfied ==
    Done => \A i \in Cands :
                Accepted(i) => \A k \in DOMAIN Prereqs(i) : Satisfied(Prereqs(i)[k])

\* C3 witness: an accepted candidate with two different prerequisite lines.
C3_Witness ==
    /\ Done
    /\ \E i \in Cands :
           /\ Accepted(i)
           /\ Len(Prereqs(i)) >= 2
           /\ Prereqs(i)[1] # Prereqs(i)[2]

\* C4: an accepted candidate has no entry in the rejected list, and a
\* candidate that is not accepted has exactly one entry, also when several
\* of its files are locked by installed efixes.
\* Fails on the program: the continue of the loop over the files of an
\* epkg goes on with its next file, and each locked file appends a reason.
C4_OneReasonPerRejected ==
    Done => \A i \in Cands :
                Cardinality(EntriesOf(i)) = IF Accepted(i) THEN 0 ELSE 1

\* the epkgs that survived the prerequisite and installed-lock checks
Survivors == {epkgs_info[k].path : k \in DOMAIN epkgs_info}

Epoch(path) == info_of(epkgs_info, path).sec_from_epoch

IndexOf(path) == CHOOSE i \in Cands : epkg_list[i] = path

FilesOfPath(path) == FileSet(IndexOf(path))

\* the files claimed by the epkgs the walk kept before position k
ClaimedBefore(k) ==
    UNION {FilesOfPath(sorted_epkgs[j]) :
               j \in {j \in 1..(k - 1) : ~ InList(sorted_epkgs[j], removed_epkg)}}

\* "<fix>: locked by previous efix to install" is in the rejected list
RejectedByPrevious(path) ==
    \E k \in DOMAIN epkgs_reject :
        /\ IsPrefix(basename(path) \o <<58, 32>>, epkgs_reject[k])
        /\ IsSuffix(QuoteLockedByPrevious, epkgs_reject[k])

C6_AcceptedByDateStable ==
    Done => \A a, b \in DOMAIN sorted_epkgs :
                a < b =>
                    /\ Epoch(sorted_epkgs[a]) >= Epoch(sorted_epkgs[b])
                    /\ Epoch(sorted_epkgs[a]) = Epoch(sorted_epkgs[b])
                           => IndexOf(sorted_epkgs[a]) < IndexOf(sorted_epkgs[b])

\* C6 witness: two accepted candidates have the same epoch, from packaging
\* dates written in different time zones.
C6_Witness ==
    /\ Done
    /\ \E a, b \in DOMAIN sorted_epkgs :
           /\ a < b
           /\ Epoch(sorted_epkgs[a]) = Epoch(sorted_epkgs[b])
           /\ info_of(epkgs_info, sorted_epkgs[a]).pkg_date
                  # info_of(epkgs_info, sorted_epkgs[b]).pkg_date

\* the label of candidate i: the one of its first LABEL line
LabelOf(i) ==
    IF LinesOf(i, "LABEL") = <<>> THEN <<>> ELSE LinesOf(i, "LABEL")[1].v

\* the candidate an entry of the rejected list names
CandOfEntry(k) == CHOOSE i \in Cands : k \in EntriesOf(i)

\* C7: the rejected list is sorted alphabetically by the label of the
\* rejected fix, whatever the rejected candidates and their reasons.
\* Fails on the program: the reasons are sorted as strings, and a reason
\* starts with the file name of the epkg, not with its label.
C7_RejectedSortedByLabel ==
    Done => \A a, b \in DOMAIN epkgs_reject :
                a < b => LexLeq(LabelOf(CandOfEntry(a)), LabelOf(CandOfEntry(b)))

\* the first prerequisite line of candidate i that does not hold, 0 if all hold
FirstFailing(i) ==
    LET bad == {k \in DOMAIN Prereqs(i) : ~ Satisfied(Prereqs(i)[k])}
    IN  IF bad = {} THEN 0 ELSE CHOOSE k \in bad : \A j \in bad : k <= j

\* s holds sub
Contains(sub, s) ==
    \E k \in 1..(Len(s) - Len(sub) + 1) : SubSeq(s, k, k + Len(sub) - 1) = sub

\* "<minlvl> =< <installed> =< <maxlvl>", the end of an out-of-range reason
RangeText(l) ==
    l.minlvl \o <<32, 61, 60, 32>> \o lpps[l.v].str \o <<32, 61, 60, 32>> \o l.maxlvl

\* entry is the out-of-range reason of prerequisite line l of the epkg at path
NamesLevels(entry, path, l) ==
    /\ IsPrefix(basename(path) \o <<58, 32>> \o QuotePrerequisite \o l.v \o <<32>>
                    \o QuoteLevels, entry)
    /\ IsSuffix(<<32>> \o RangeText(l), entry)

\* the reason the prerequisite check gives for line l of a candidate
NamesPrereq(entry, path, l) ==
    IF l.v \notin DOMAIN lpps
    THEN entry = basename(path) \o <<58, 32>> \o QuotePrereqMissing \o l.v
    ELSE NamesLevels(entry, path, l)

\* C8: the prerequisites of a candidate are evaluated in declaration order
\* up to the first that fails: the candidate then has one reject reason,
\* which names that prerequisite ("prerequisite missing: <package>" when it
\* is not installed, "levels do not satisfy condition" when out of range),
\* and no later prerequisite changes it or adds another.
C8_FirstFailingPrereqWins ==
    Done => \A i \in Cands :
                FirstFailing(i) # 0 =>
                    /\ Cardinality(EntriesOf(i)) = 1
                    /\ \A k \in EntriesOf(i) :
                           NamesPrereq(epkgs_reject[k], epkg_list[i],
                                       Prereqs(i)[FirstFailing(i)])

\* C8 witness: a candidate declares two prerequisites that both fail, the
\* first out of range and the second missing, and has been rejected.
C8_Witness ==
    /\ Done
    /\ \E i \in Cands :
           /\ Len(Prereqs(i)) >= 2
           /\ Prereqs(i)[1].v \in DOMAIN lpps
           /\ ~ Satisfied(Prereqs(i)[1])
           /\ Prereqs(i)[2].v \notin DOMAIN lpps
           /\ EntriesOf(i) # {}

\* candidate i is rejected because prerequisite line l is out of range
LevelsRejected(i, l) ==
    \E k \in EntriesOf(i) : NamesLevels(epkgs_reject[k], epkg_list[i], l)

\* C9: the range test is inclusive at both ends and orders the integer
\* vectors lexicographically, a proper prefix before the longer vector:
\* a prerequisite that is reached and installed rejects the candidate
\* exactly when the installed vector is not within [minlvl, maxlvl]; so
\* 1.0.2.1600 passes [1.0.2.1500, 1.0.2.1600], 7.1.3.50 fails
\* [7.1.3.0, 7.1.3.49] and 7.1.3 fails a minlvl of 7.1.3.0.
C9_InclusiveLexicographicRange ==
    Done => \A i \in Cands :
                /\ \A k \in DOMAIN Prereqs(i) :
                       LET l == Prereqs(i)[k]
                       IN  (/\ l.v \in DOMAIN lpps
                            /\ \A j \in 1..(k - 1) : Satisfied(Prereqs(i)[j]))
                               => (LevelsRejected(i, l)
                                       <=> ~ (/\ LexLeq(Digits(l.minlvl), lpps[l.v].int)
                                              /\ LexLeq(lpps[l.v].int, Digits(l.maxlvl))))
                /\ Len(Prereqs(i)) >= 1 =>
                       LET l == Prereqs(i)[1]
                       IN  /\ (/\ l = PrereqLine(FsSsl, V1021500, V1021600)
                               /\ FsSsl \in DOMAIN lpps
                               /\ lpps[FsSsl].int = <<1, 0, 2, 1600>>)
                                  => ~ LevelsRejected(i, l)
                           /\ (/\ l = PrereqLine(FsTcp, V7130, V71349)
                               /\ FsTcp \in DOMAIN lpps
                               /\ lpps[FsTcp].int = <<7, 1, 3, 50>>)
                                  => LevelsRejected(i, l)
                           /\ (/\ l.v = FsTcp /\ l.minlvl = V7130
                               /\ FsTcp \in DOMAIN lpps
                               /\ lpps[FsTcp].int = <<7, 1, 3>>)
                                  => LevelsRejected(i, l)

\* C9 witness: the installed level 7.1.3 is a proper prefix of the minlvl
\* 7.1.3.0 of the first prerequisite of a candidate, which is rejected.
C9_Witness ==
    /\ Done
    /\ \E i \in Cands :
           /\ Len(Prereqs(i)) >= 1
           /\ Prereqs(i)[1].v = FsTcp
           /\ Prereqs(i)[1].minlvl = V7130
           /\ FsTcp \in DOMAIN lpps
           /\ lpps[FsTcp].int = <<7, 1, 3>>
           /\ LevelsRejected(i, Prereqs(i)[1])

\* candidate i has a reason given by the prerequisite check
PrereqRejected(i) ==
    \E k \in EntriesOf(i) :
        IsPrefix(basename(epkg_list[i]) \o <<58, 32>> \o QuotePrerequisite,
                 epkgs_reject[k])

\* C10: a candidate whose emgr command exits non-zero is not rejected by
\* the prerequisite check, whatever the command printed; nor is a candidate
\* with no prerequisite.
\* Fails on the program: stdout is parsed whatever the exit code, and a
\* failing prerequisite line in it rejects the candidate.
C10_FailedInspectionKept ==
    Done => \A i \in Cands :
                (emgr_out[i].rc # 0 \/ Prereqs(i) = <<>>) => ~ PrereqRejected(i)

\* ==================================================== calls of to_utc_epoch
\* the time zone tokens tried: those of the table, none, and two the table
\* does not have
ZonePool == DOMAIN ShiftHalf \cup {"", "AEST", "GMT"}

\* the numbers of the dates tried: year, month, day, hour, minute, second
TmPool ==
    {<<y, m, d, h, 35, 9>> : y \in {2017, 2024}, m \in {2, 10, 12},
                             d \in {1, 9, 29, 31}, h \in {0, 4, 23}}

DatePool ==
    {[fmt |-> f, tm |-> tm, tz |-> z] : f \in {"ok", "shape", "value"},
                                        tm \in TmPool, z \in ZonePool}

InitConv ==
    /\ date_arg \in DatePool
    /\ epoch_ret = <<>>
    /\ IdleEpkgs
    /\ IdleMain
    /\ IdleRoute
    /\ IdleTools

\* to_utc_epoch(date) is called and returns
ToUtcEpoch ==
    /\ epoch_ret = <<>>
    /\ date_arg # <<>>
    /\ epoch_ret' = to_utc_epoch(date_arg)
    /\ UNCHANGED <<date_arg, epkgsVars, mainVars, routeVars, toolVars>>

NextConv == ToUtcEpoch

SpecConv == InitConv /\ [][NextConv]_vars

\* ================================================== the route module
\* route.py, run_route_command: it looks the destination up in the routing
\* table that "netstat -rn" prints and runs the route command only when the
\* action asks for a change.  An IPv4 address is its four octets.

\* the longest routing table
MaxRoutes == 2

\* two to the power n, for n from 0 to 8
Pow2Octet(n) == <<1, 2, 4, 8, 16, 32, 64, 128, 256>>[n + 1]

\* the number of bits of a prefix of length p that fall in octet k
octet_bits(p, k) ==
    IF p - 8 * (k - 1) < 0 THEN 0
    ELSE IF p - 8 * (k - 1) > 8 THEN 8
    ELSE p - 8 * (k - 1)

\* a faulty variant of network_address: the prefix length is taken as 32
network_address_host(addr, p) == addr

\* int(address) & int(netmask) for the netmask of prefix length p
network_address(addr, p) ==
    [k \in 1..4 |-> addr[k] - (addr[k] % Pow2Octet(8 - octet_bits(p, k)))]

\* int(address) & int(netmask) for a netmask given by its octets
and_netmask(addr, mask) ==
    [k \in 1..4 |-> addr[k] - (addr[k] % (256 - mask[k]))]

\* ipaddress.ip_network(f"{addr}/{p}", strict=False)
ip_network(addr, p) == [network_address |-> network_address(addr, p), prefixlen |-> p]

\* "destination_ip in network"
ip_in_network(ip, network) ==
    network_address(ip, network.prefixlen) = network.network_address

\* normalize_route_entry: "while len(base_parts) < 4: base_parts.append('0')"
RECURSIVE pad_octets(_)
pad_octets(parts) == IF Len(parts) < 4 THEN pad_octets(Append(parts, 0)) ELSE parts

\* an octet list and prefix that ipaddress accepts
valid_network(parts, p) ==
    /\ Len(parts) = 4
    /\ \A k \in 1..4 : parts[k] \in 0..255
    /\ p \in 0..32

\* calculate_network_address(module, destination, input_mask): the mask is
\* a netmask when it has a dot, a prefix length otherwise
calculate_network_address(dest, p) ==
    IF p.netmask # <<>> THEN and_netmask(dest, p.netmask)
    ELSE IF p.prefixlen # 0 THEN network_address(dest, p.prefixlen)
    ELSE network_address(dest, 32)

\* parse_routing_table: the networks and gateways of the lines that have a
\* route entry in CIDR or in dotted form; failed when an entry in CIDR form
\* does not normalize to a network and the module ends in fail_json
RECURSIVE parse_routing_table(_, _)
parse_routing_table(lines, acc) ==
    IF lines = <<>> THEN [failed |-> FALSE, table |-> acc]
    ELSE LET e == Head(lines)
             rest == Tail(lines)
         IN  IF e.kind = "cidr"
             THEN IF valid_network(pad_octets(e.parts), e.prefix)
                  THEN parse_routing_table(rest,
                           Append(acc, [network |-> ip_network(pad_octets(e.parts), e.prefix),
                                        gateway |-> e.gateway]))
                  ELSE [failed |-> TRUE, table |-> <<>>]
             ELSE IF e.kind = "dotted"
             THEN IF valid_network(e.parts, 32)
                  THEN parse_routing_table(rest,
                           Append(acc, [network |-> ip_network(e.parts, 32),
                                        gateway |-> e.gateway]))
                  ELSE parse_routing_table(rest, acc)
             ELSE parse_routing_table(rest, acc)

\* the loop of check_destination_in_routing_table over the parsed table
RECURSIVE match_table(_, _, _)
match_table(table, destination_ip, p) ==
    IF table = <<>> THEN FALSE
    ELSE LET network == Head(table).network
             gateway_get == Head(table).gateway
         IN  IF p.action \in {"set", "change"}
             THEN IF destination_ip = network.network_address THEN TRUE
                  ELSE IF ip_in_network(destination_ip, network) THEN TRUE
                  ELSE match_table(Tail(table), destination_ip, p)
             ELSE IF destination_ip = network.network_address /\ p.gateway = gateway_get
                  THEN TRUE
                  ELSE IF ip_in_network(destination_ip, network) /\ p.gateway = gateway_get
                  THEN TRUE
                  ELSE match_table(Tail(table), destination_ip, p)

\* check_destination_in_routing_table(module, destination): "True",
\* "False", or "fail" when it ends in fail_json
check_destination_in_routing_table(p, out) ==
    IF p.destination.kind # "ip" THEN "fail"
    ELSE LET destination_ip == IF p.flags = "net"
                               THEN calculate_network_address(p.destination.o, p)
                               ELSE p.destination.o
             parsed == parse_routing_table(out.lines, <<>>)
         IN  IF out.rc # 0 \/ parsed.failed THEN "fail"
             ELSE IF match_table(parsed.table, destination_ip, p) THEN "True" ELSE "False"

\* build_route_command(module): the parts of the command line that depend
\* on the parameters modelled
build_route_command(p) ==
    IF p.flush THEN [flush |-> TRUE, action |-> "", dest |-> <<>>, gateway |-> ""]
    ELSE [flush |-> FALSE,
          action |-> p.action,
          dest |-> IF p.destination.kind = "none" THEN <<0>>
                   ELSE IF p.flags = "net" /\ p.action \in {"delete", "set", "change"}
                   THEN calculate_network_address(p.destination.o, p)
                   ELSE p.destination.o,
          gateway |-> p.gateway]

\* the destinations tried: none, addresses, and a host name
DestinationPool ==
    {[kind |-> "none", o |-> <<>>], [kind |-> "name", o |-> <<>>],
     [kind |-> "ip", o |-> <<10, 0, 0, 0>>], [kind |-> "ip", o |-> <<10, 0, 0, 5>>],
     [kind |-> "ip", o |-> <<10, 0, 1, 7>>]}

\* the lines of netstat -rn tried: networks in CIDR form, short or full,
\* a host route, an entry with an octet out of range, and the default route
NetstatLinePool ==
    {[kind |-> "cidr", parts |-> <<10, 0, 0>>, prefix |-> 24, gateway |-> "192.168.1.1"],
     [kind |-> "cidr", parts |-> <<10, 0, 1, 0>>, prefix |-> 24, gateway |-> "192.168.1.2"],
     [kind |-> "cidr", parts |-> <<10>>, prefix |-> 8, gateway |-> "192.168.1.2"],
     [kind |-> "dotted", parts |-> <<10, 0, 0, 5>>, prefix |-> 32, gateway |-> "192.168.1.1"],
     [kind |-> "cidr", parts |-> <<10, 12, 300>>, prefix |-> 16, gateway |-> "192.168.1.1"],
     [kind |-> "default", parts |-> <<>>, prefix |-> 0, gateway |-> "192.168.1.1"]}

InitRoute ==
    /\ \E action \in {"add", "delete", "change", "flush", "get", "set"},
          destination \in DestinationPool,
          gateway \in {"", "192.168.1.1", "192.168.1.2"},
          netmask \in {<<>>, <<255, 255, 255, 0>>},
          prefixlen \in {0, 24},
          flags \in {"host", "net"},
          flush \in BOOLEAN :
           route_params = [action |-> action, destination |-> destination,
                           gateway |-> gateway, netmask |-> netmask,
                           prefixlen |-> prefixlen, flags |-> flags, flush |-> flush]
    /\ \E rc \in {0, 1}, lines \in SeqsUpTo(NetstatLinePool, MaxRoutes) :
           netstat = [rc |-> rc, lines |-> IF rc = 0 THEN lines ELSE <<>>]
    /\ rpc = "start"
    /\ check_result = "none"
    /\ route_cmd = <<>>
    /\ route_exit = [how |-> "", changed |-> FALSE]
    /\ IdleEpkgs
    /\ IdleMain
    /\ IdleConv
    /\ IdleTools

\* run_route_command looks the destination up
CheckDestination ==
    /\ rpc = "start"
    /\ route_params.destination.kind # "none"
    /\ check_result' = check_destination_in_routing_table(route_params, netstat)
    /\ IF check_result' = "fail"
       THEN rpc' = "ended" /\ route_exit' = [how |-> "fail_json", changed |-> FALSE]
       ELSE rpc' = "checked" /\ UNCHANGED route_exit
    /\ UNCHANGED <<route_params, netstat, route_cmd, epkgsVars, mainVars, convVars, toolVars>>

\* no destination is given: nothing is looked up
NoDestination ==
    /\ rpc = "start"
    /\ route_params.destination.kind = "none"
    /\ rpc' = "checked"
    /\ UNCHANGED <<route_params, netstat, check_result, route_cmd, route_exit,
                   epkgsVars, mainVars, convVars, toolVars>>

\* the destination is there and the action is add, or it is not there and
\* the action needs it
nothing_to_do(p, result) ==
    \/ result = "True" /\ p.action \in {"add"}
    \/ result = "False" /\ p.action \in {"delete", "change", "flush", "get", "set"}

\* the exit with changed=False
ExitUnchanged ==
    /\ rpc = "checked"
    /\ nothing_to_do(route_params, check_result)
    /\ route_exit' = [how |-> "exit_json", changed |-> FALSE]
    /\ rpc' = "ended"
    /\ UNCHANGED <<route_params, netstat, check_result, route_cmd, epkgsVars,
                   mainVars, convVars, toolVars>>

\* the route command is built and run, and main ends the module; without
\* destination the command holds the number 0 and ' '.join(cmd) raises
RunRoute ==
    /\ rpc = "checked"
    /\ ~ nothing_to_do(route_params, check_result)
    /\ IF ~ route_params.flush /\ route_params.destination.kind = "none"
       THEN /\ route_exit' = [how |-> "fail_json", changed |-> FALSE]
            /\ UNCHANGED route_cmd
       ELSE /\ route_cmd' = Append(route_cmd, build_route_command(route_params))
            /\ \E rc \in {0, 1} :
                   route_exit' = IF rc # 0 THEN [how |-> "fail_json", changed |-> FALSE]
                                 ELSE [how |-> "exit_json",
                                       changed |-> (route_params.action # "get")]
    /\ rpc' = "ended"
    /\ UNCHANGED <<route_params, netstat, check_result, epkgsVars, mainVars, convVars, toolVars>>

NextRoute ==
    \/ CheckDestination
    \/ NoDestination
    \/ ExitUnchanged
    \/ RunRoute

SpecRoute == InitRoute /\ [][NextRoute]_vars

\* ------------------------------------------- properties of the module run
\* the function or command was called during the run
Ran(c) == InList(c, calls)

\* the worker thread is running: started and not yet terminated
Alive(t) == thd[t].st \in {"started", "ran"}

\* the command of an inventory worker has exited non-zero
InventoryFailed == \E t \in Workers : thd[t].st \in {"ran", "terminated"} /\ thd[t].rc # 0

LaterPhases == {"flrtvc.ksh", "run_parser", "run_downloader", "check_epkgs",
                "run_installer", "geninstall"}

\* C11: when the lslpp or the emgr listing command exits non-zero,
\* run_flrtvc returns False, also when the work directory held an output
\* file of an earlier run, and the module fails without having run the
\* flrtvc script, run_parser, run_downloader, check_epkgs or run_installer.
C11_InventoryFailureFailsRun ==
    InventoryFailed =>
        /\ \A c \in LaterPhases : ~ Ran(c)
        /\ mpc \in {"rm_emgr", "start_emgr", "wait_all", "ended"}
        /\ mpc = "ended" =>
               /\ ret.run_flrtvc = "False"
               /\ results.ended = "fail_json"
               /\ results.changed = FALSE

\* C11 witness: both files of an earlier run were there, the emgr listing
\* failed while the lslpp listing succeeded, and the module has failed.
C11_Witness ==
    /\ mpc = "ended"
    /\ stale = {"lslpp.txt", "emgr.txt"}
    /\ thd["run_lslpp"] = [st |-> "terminated", rc |-> 0]
    /\ thd["run_emgr"] = [st |-> "terminated", rc |-> 1]
    /\ results.ended = "fail_json"

\* the main thread takes a step that tests for, removes or reads file f
MainTouches(f) ==
    /\ mpc' # mpc
    /\ \/ f = "lslpp.txt" /\ mpc = "rm_lslpp"
       \/ f = "emgr.txt" /\ mpc = "rm_emgr"
       \/ mpc = "wait_all" /\ join_i > Len(THRDS)

\* C12 as stated: whenever the main thread tests for or reads lslpp.txt or
\* emgr.txt, no worker thread is running.
\* Fails on the program: run_flrtvc tests for emgr.txt (and removes it)
\* after run_lslpp was started and before wait_all.
C12_FilesTouchedAfterBothTerminated ==
    [][(MainTouches("lslpp.txt") \/ MainTouches("emgr.txt"))
           => \A t \in Workers : ~ Alive(t)]_vars

\* C12 amended: the main thread touches an output file only while the
\* worker that writes it is not running, and once wait_all has returned
\* (the test that both files exist, and every later read) both workers
\* have terminated.
C12_FileTouchedAfterItsWriterEnded ==
    [][/\ \A t \in Workers : MainTouches(OutputOf(t)) => ~ Alive(t)
       /\ (mpc = "wait_all" /\ mpc' # mpc) =>
              \A t \in Workers : thd[t].st = "terminated"
       /\ mpc' \in {"flrtvc", "check_only", "downloader", "download_only", "copy",
                    "finish", "ended"} =>
              \A t \in Workers : ~ Alive(t)]_vars

\* C12 witness: both workers wrote their file and terminated, wait_all has
\* joined them in the order of THRDS, and run_flrtvc found both files.
C12_Witness ==
    /\ mpc = "flrtvc"
    /\ THRDS = <<"run_lslpp", "run_emgr">>
    /\ join_i = 3
    /\ \A t \in Workers : thd[t] = [st |-> "terminated", rc |-> 0]
    /\ workdir_files = {"lslpp.txt", "emgr.txt"}

\* str.split(' ') of the argument handed to geninstall
RECURSIVE SplitSpace(_, _)
SplitSpace(s, cur) ==
    IF s = <<>> THEN <<cur>>
    ELSE IF Head(s) = 32 THEN <<cur>> \o SplitSpace(Tail(s), <<>>)
    ELSE SplitSpace(Tail(s), Append(cur, Head(s)))

\* the names in l are names of fixes of the list given to run_installer,
\* in the same relative order
InOrderOfEpkgs(l) ==
    \E f \in [DOMAIN l -> DOMAIN epkgs] :
        /\ \A a, b \in DOMAIN l : a < b => f[a] < f[b]
        /\ \A a \in DOMAIN l : l[a] = basename(epkgs[f[a]])

\* C16: the fixes handed to geninstall are in the same relative order as
\* the accepted list run_installer received; a fix skipped because its copy
\* failed does not reorder the others.
C16_GeninstallKeepsOrder ==
    /\ mpc = "copy" => InOrderOfEpkgs(epkgs_base)
    /\ geninstall.ran => InOrderOfEpkgs(SplitSpace(geninstall.efixes, <<>>))

\* C16 witness: of three accepted fixes the second was skipped after three
\* failed copies, and geninstall got the first and the third, in that order.
C16_Witness ==
    /\ geninstall.ran
    /\ Len(epkgs) = 3
    /\ copied = {epkgs[1], epkgs[3]}
    /\ SplitSpace(geninstall.efixes, <<>>) = <<basename(epkgs[1]), basename(epkgs[3])>>
    /\ \E k \in DOMAIN messages : messages[k] = [kind |-> "cannot_copy", text |-> epkgs[2]]

\* C17: with check_only the run never calls run_parser, run_downloader
\* (check_epkgs) or run_installer and never runs geninstall: it ends in the
\* report phase or at the exit that follows it.
C17_CheckOnlyEndsAfterReport ==
    params.check_only =>
        /\ \A c \in LaterPhases \ {"flrtvc.ksh"} : ~ Ran(c)
        /\ ~ geninstall.ran
        /\ mpc \notin {"downloader", "download_only", "copy", "finish"}
        /\ results.changed = FALSE

\* C17 witness: the report was made and the module left on check_only.
C17_Witness ==
    /\ params.check_only
    /\ mpc = "ended"
    /\ Ran("flrtvc.ksh")
    /\ ret.run_flrtvc = "True"
    /\ results.ended = "exit_json"
    /\ results.msg = "exit on check only"

\* C18: with download_only the run never calls run_installer, never runs
\* geninstall and the changed flag of the result stays False.
C18_DownloadOnlyNeverInstalls ==
    params.download_only =>
        /\ ~ Ran("run_installer")
        /\ ~ Ran("geninstall")
        /\ ~ geninstall.ran
        /\ mpc \notin {"copy", "finish"}
        /\ results.changed = FALSE

\* C18 witness: fixes were downloaded and accepted, and the module left on
\* download_only.
C18_Witness ==
    /\ params.download_only
    /\ mpc = "ended"
    /\ Ran("run_downloader")
    /\ epkgs # <<>>
    /\ results.ended = "exit_json"
    /\ results.msg = "exit on download only"

\* C19: with clean, the work directory is gone whenever the module has
\* ended, by whichever exit.
\* Fails on the program: the exit of run_flrtvc on a report with
\* "No vulnerabilities" does not remove the work directory.
C19_CleanRemovesWorkdir ==
    (mpc = "ended" /\ params.clean) => ~ workdir_exists

\* --------------------------------------------- properties of to_utc_epoch
\* the offsets of the time zone table, in seconds east of UTC
OffsetSeconds(tz) ==
    CASE tz \in {"UTC", "WET"} -> 0
      [] tz \in {"CET", "WEST"} -> 3600
      [] tz \in {"CEST", "EET", "MT", "SAST"} -> 7200
      [] tz = "MSK" -> 10800
      [] tz = "IST" -> 19800
      [] tz = "JST" -> 32400
      [] tz = "NZST" -> 43200
      [] tz = "EDT" -> -14400
      [] tz \in {"CDT", "EST", "ET"} -> -18000
      [] tz \in {"CST", "CT"} -> -21600
      [] tz = "PDT" -> -25200
      [] tz = "PST" -> -28800

TableZones ==
    {"CDT", "CEST", "CET", "CST", "CT", "EDT", "EET", "EST", "ET", "IST", "JST",
     "MSK", "MT", "NZST", "PDT", "PST", "SAST", "UTC", "WEST", "WET"}

\* the days from 1970-01-01 to the first day of year y, counted year by year
RECURSIVE DaysToYear(_)
DaysToYear(y) ==
    IF y = 1970 THEN 0
    ELSE DaysToYear(y - 1)
             + (IF (y - 1) % 400 = 0 \/ ((y - 1) % 4 = 0 /\ (y - 1) % 100 # 0)
                THEN 366 ELSE 365)

\* the days of year y before the first day of month m
DaysToMonth(y, m) ==
    LET leap == IF y % 400 = 0 \/ (y % 4 = 0 /\ y % 100 # 0) THEN 1 ELSE 0
        common == <<0, 31, 59, 90, 120, 151, 181, 212, 243, 273, 304, 334>>
    IN  common[m] + (IF m > 2 THEN leap ELSE 0)

\* seconds since the epoch of the date with numbers tm, read as UTC
ReadAsUTC(tm) ==
    (DaysToYear(tm[1]) + DaysToMonth(tm[1], tm[2]) + tm[3] - 1) * 86400
        + tm[4] * 3600 + tm[5] * 60 + tm[6]

\* the date is one strptime parses
WellFormed(date) ==
    /\ date.fmt = "ok"
    /\ date.tm[3] <= IF date.tm[2] = 12 THEN 31
                      ELSE DaysToMonth(date.tm[1], date.tm[2] + 1)
                               - DaysToMonth(date.tm[1], date.tm[2])

\* "Mon Oct 9 23:35:09 CDT 2017"
ExampleCDT == [fmt |-> "ok", tm |-> <<2017, 10, 9, 23, 35, 9>>, tz |-> "CDT"]

\* C13: for a well-formed date with a time zone of the table, to_utc_epoch
\* returns the seconds since the epoch of the date read as UTC minus the
\* offset of the zone; without time zone token, the date read as UTC.
\* "Mon Oct 9 23:35:09 CDT 2017" gives the epoch of 2017-10-10 04:35:09 UTC
\* (1507610109), and a date in IST gives the date read as UTC minus 19800.
C13_EpochIsUtcMinusOffset ==
    (epoch_ret # <<>> /\ WellFormed(date_arg)) =>
        /\ date_arg.tz \in TableZones =>
               epoch_ret[1] = ReadAsUTC(date_arg.tm) - OffsetSeconds(date_arg.tz)
        /\ date_arg.tz = "" => epoch_ret[1] = ReadAsUTC(date_arg.tm)
        /\ date_arg.tz = "IST" => epoch_ret[1] = ReadAsUTC(date_arg.tm) - 19800
        /\ date_arg = ExampleCDT =>
               /\ epoch_ret[1] = 1507610109
               /\ epoch_ret[1] = ReadAsUTC(<<2017, 10, 10, 4, 35, 9>>)

\* C13 witness: the date of the example was converted, to the epoch of
\* 2017-10-10 04:35:09 UTC.
C13_Witness ==
    /\ date_arg = ExampleCDT
    /\ epoch_ret = <<1507610109, "">>

\* another C13 case reached: a date in IST on the last day of a leap
\* February is moved back by five and a half hours
C13_WitnessIST ==
    /\ date_arg = [fmt |-> "ok", tm |-> <<2024, 2, 29, 4, 35, 9>>, tz |-> "IST"]
    /\ epoch_ret # <<>>
    /\ epoch_ret[1] = ReadAsUTC(<<2024, 2, 28, 23, 5, 9>>)

\* ------------------------------- properties of check_epkgs about the dates
\* the packaging date candidate i prints, <<>> when it prints none
DateOf(i) ==
    LET l == LinesOf(i, "DATE")
    IN  IF l = <<>> THEN <<>> ELSE <<l[1].d>>

\* candidate i was entered in epkgs_info by the first loop
Inspected(i) == epkg_list[i] \in Survivors

\* the candidate's date has a time zone token that the table does not have
UnknownZone(i) ==
    /\ DateOf(i) # <<>>
    /\ WellFormed(DateOf(i)[1])
    /\ DateOf(i)[1].tz \notin TableZones \cup {""}

\* a warning about the time zone of the candidate is in the log or in the
\* messages of the result
ZoneWarned(i) ==
    \/ \E k \in DOMAIN log :
           /\ log[k].kind = "date"
           /\ log[k].text = epkg_list[i]
           /\ log[k].msg = "Unsuported Time Zone: \"TZ\", using \"UTC\""
    \/ \E k \in DOMAIN messages : messages[k].kind \in {"date", "timezone"}

\* C14: a candidate whose packaging date has a time zone that is not in the
\* table has its date read as UTC, and the pass records a warning about
\* the unknown time zone in the log or in the messages.
\* Fails on the program: check_epkgs logs the message of to_utc_epoch only
\* when the epoch is -1, and with an unknown zone it is not.
C14_UnknownZoneWarned ==
    Done => \A i \in Cands :
                (UnknownZone(i) /\ Inspected(i)) =>
                    /\ Epoch(epkg_list[i]) = ReadAsUTC(DateOf(i)[1].tm)
                    /\ ZoneWarned(i)

\* the candidate prints no packaging date, or one that does not parse
BadDate(i) == DateOf(i) = <<>> \/ ~ WellFormed(DateOf(i)[1])

RECURSIVE Pow2(_)
Pow2(n) == IF n = 0 THEN 1 ELSE 2 * Pow2(n - 1)

\* the address with octets o as a number
IpInt(o) == ((o[1] * 256 + o[2]) * 256 + o[3]) * 256 + o[4]

\* the octets of a route entry, missing ones read as 0
FourOctets(parts) == [k \in 1..4 |-> IF k <= Len(parts) THEN parts[k] ELSE 0]

\* the lines of the routing table that name a network or a host
TableEntries ==
    {k \in DOMAIN netstat.lines : netstat.lines[k].kind \in {"cidr", "dotted"}}

\* the number of addresses of the network of line k, and its first address
SizeOf(k) == Pow2(32 - netstat.lines[k].prefix)

FirstOf(k) ==
    LET a == IpInt(FourOctets(netstat.lines[k].parts))
    IN  a - (a % SizeOf(k))

\* the prefix length that normalizes the destination: that of the netmask,
\* else prefixlen, else 32
MaskLength ==
    IF route_params.netmask = <<255, 255, 255, 0>> THEN 24
    ELSE IF route_params.prefixlen # 0 THEN route_params.prefixlen
    ELSE 32

\* the destination as a number, reduced to its network address when the
\* destination is given as a network (flags net)
NormalizedDestination ==
    LET d == IpInt(route_params.destination.o)
    IN  IF route_params.flags = "net" THEN d - (d % Pow2(32 - MaskLength)) ELSE d

\* some entry's network contains the destination and, unless the action is
\* set or change, has the requested gateway
DestinationFound ==
    \E k \in TableEntries :
        /\ FirstOf(k) <= NormalizedDestination
        /\ NormalizedDestination < FirstOf(k) + SizeOf(k)
        /\ route_params.action \in {"set", "change"}
               \/ netstat.lines[k].gateway = route_params.gateway

RouteRan == route_cmd # <<>>

\* C20: with a destination, the route command of action add runs only when
\* check_destination_in_routing_table returned False and that of delete,
\* change, get or set only when it returned True; in the other case the
\* module exits with changed=False and no command was run.  The check
\* returns True exactly when some entry's network contains the normalized
\* destination and, for actions other than set and change, that entry has
\* the requested gateway.
C20_RouteRunsOnlyWhenNeeded ==
    /\ check_result \in {"True", "False"} =>
           (check_result = "True" <=> DestinationFound)
    /\ (rpc = "ended" /\ route_params.destination.kind # "none") =>
           /\ (RouteRan /\ route_params.action = "add") => check_result = "False"
           /\ (RouteRan /\ route_params.action \in {"delete", "change", "get", "set"})
                  => check_result = "True"
           /\ ( \/ check_result = "True" /\ route_params.action = "add"
                \/ check_result = "False"
                       /\ route_params.action \in {"delete", "change", "get", "set"} )
                  => /\ ~ RouteRan
                     /\ route_exit = [how |-> "exit_json", changed |-> FALSE]

\* C20 witness: route add of the network of 10.0.0.5/24 through a gateway
\* that the table already has for 10.0.0/24: found, nothing run, changed=False.
C20_Witness ==
    /\ rpc = "ended"
    /\ route_params.action = "add"
    /\ route_params.flags = "net"
    /\ route_params.destination = [kind |-> "ip", o |-> <<10, 0, 0, 5>>]
    /\ route_params.prefixlen = 24
    /\ route_params.netmask = <<>>
    /\ route_params.gateway = "192.168.1.1"
    /\ netstat.lines = <<[kind |-> "cidr", parts |-> <<10, 0, 0>>, prefix |-> 24,
                          gateway |-> "192.168.1.1"]>>
    /\ check_result = "True"
    /\ ~ RouteRan
    /\ route_exit = [how |-> "exit_json", changed |-> FALSE]

\* another C20 case reached: a delete of a host that the table does not
\* have with that gateway is not run
C20_WitnessDelete ==
    /\ rpc = "ended"
    /\ route_params.action = "delete"
    /\ route_params.flags = "host"
    /\ route_params.destination = [kind |-> "ip", o |-> <<10, 0, 0, 5>>]
    /\ route_params.gateway = "192.168.1.1"
    /\ netstat.lines = <<[kind |-> "cidr", parts |-> <<10>>, prefix |-> 8,
                          gateway |-> "192.168.1.2"]>>
    /\ check_result = "False"
    /\ ~ RouteRan

\* ==================================================== the snap module
\* Python's `sub in s` on strings, here on sequences of words
str_in(sub, s) ==
    \E i \in 0..(Len(s) - Len(sub)) : SubSeq(s, i + 1, i + Len(sub)) = sub

\* a faulty variant of snap_general_option: hacmp is tested before all_info and
\* -g is added before -S
snap_general_option_hacmp_first(p) ==
    IF p.hacmp THEN <<"snap", "-e">>
    ELSE IF p.all_info THEN <<"snap", "-a">>
    ELSE <<"snap">>
         \o (IF p.file_system_info THEN <<"-f">> ELSE <<>>)
         \o (IF p.live_kernel THEN <<"-U">> ELSE <<>>)
         \o (IF p.installation_info THEN <<"-i">> ELSE <<>>)
         \o (IF p.kernel_info THEN <<"-k">> ELSE <<>>)
         \o (IF p.workload_manager_info THEN <<"-w">> ELSE <<>>)
         \o (IF p.general_info
             THEN <<"-g">> \o (IF p.security_info THEN <<"-S">> ELSE <<>>)
             ELSE IF p.hardware_info THEN <<"-H">> ELSE <<>>)
         \o (IF p.collects_dump THEN <<"-D">> ELSE <<>>)
         \o (IF p.compress THEN <<"-c">> ELSE <<>>)

\* snap_general_option(module): the snap command of the boolean options
snap_general_option(p) ==
    IF p.all_info THEN <<"snap", "-a">>
    ELSE IF p.hacmp THEN <<"snap", "-e">>
    ELSE <<"snap">>
         \o (IF p.file_system_info THEN <<"-f">> ELSE <<>>)
         \o (IF p.live_kernel THEN <<"-U">> ELSE <<>>)
         \o (IF p.installation_info THEN <<"-i">> ELSE <<>>)
         \o (IF p.kernel_info THEN <<"-k">> ELSE <<>>)
         \o (IF p.workload_manager_info THEN <<"-w">> ELSE <<>>)
         \o (IF p.general_info
             THEN (IF p.security_info THEN <<"-S">> ELSE <<>>) \o <<"-g">>
             ELSE IF p.hardware_info THEN <<"-H">> ELSE <<>>)
         \o (IF p.collects_dump THEN <<"-D">> ELSE <<>>)
         \o (IF p.compress THEN <<"-c">> ELSE <<>>)

\* check_memory_availbilty(): at least 8 MB are free
check_memory_availbilty(free_space_mb) == ~ (free_space_mb < 8)

\* run_snap_command_with_expect(module), given what run_command does: the
\* dictionary it returns (how = "return") or the fail_json it ends with
run_snap_command_with_expect(out) ==
    IF out.raises
    THEN [how |-> "fail_json", changed |-> FALSE,
          msg |-> "An error occurred while running the command"]
    ELSE IF str_in(<<"Nothing", "to", "clean", "up">>, out.stdout)
    THEN [how |-> "return", changed |-> FALSE, msg |-> "No cleanup was required."]
    ELSE IF out.rc = 0
    THEN [how |-> "return", changed |-> TRUE, msg |-> "Command executed successfully."]
    ELSE [how |-> "fail_json", changed |-> FALSE, msg |-> "Command execution failed."]

\* the names of the boolean options of action snap
SnapOptions ==
    {"reset", "all_info", "compress", "general_info", "live_kernel", "hacmp",
     "file_system_info", "collects_dump", "installation_info", "kernel_info",
     "security_info", "workload_manager_info", "hardware_info"}

\* what the expect script of snap -r is taken to print, word by word
SnapStdoutPool ==
    {<<"Cleanup", "completed.", "Nothing", "to", "clean", "up">>,
     <<"Cleanup", "completed.", "Command", "executed", "successfully">>,
     <<"Error", "occurred", "during", "cleanup">>,
     <<"Nothing", "to", "clean">>,
     <<"Nothing", "to", "clean", "up">>,
     <<>>}

\* nothing but snap runs
IdleNotSnap ==
    IdleEpkgs /\ IdleMain /\ IdleConv /\ IdleRoute /\ IdlePw /\ IdleSuma /\ IdleEmgr /\ IdleDl

\* a run with action=snap: either reset with the other options at their
\* defaults, or any combination of the twelve other options
InitSnap ==
    /\ \/ /\ snap_params = [o \in SnapOptions |-> o = "reset"]
          /\ snap_free_mb = 100
          /\ \E rc \in {0, 1, 127}, stdout \in SnapStdoutPool, raises \in BOOLEAN :
                 snap_out = [rc |-> rc, stdout |-> stdout, raises |-> raises]
       \/ /\ snap_params \in {p \in [SnapOptions -> BOOLEAN] : ~ p.reset}
          /\ snap_free_mb \in {7, 8}
          /\ \E rc \in {0, 1} :
                 snap_out = [rc |-> rc, stdout |-> <<>>, raises |-> FALSE]
    /\ snpc = "start"
    /\ snap_cmd = <<>>
    /\ snap_result = [how |-> "", changed |-> FALSE, msg |-> ""]
    /\ IdleNotSnap

\* main with reset=true: run_snap_command_with_expect, then exit_json(**result)
SnapReset ==
    /\ snpc = "start"
    /\ snap_params.reset
    /\ LET r == run_snap_command_with_expect(snap_out)
       IN  snap_result' = IF r.how = "return" THEN [r EXCEPT !.how = "exit_json"] ELSE r
    /\ snpc' = "ended"
    /\ UNCHANGED <<snap_params, snap_free_mb, snap_out, snap_cmd, notSnap>>

\* build_snap_command: the memory test, then snap_general_option
BuildSnapCommand ==
    /\ snpc = "start"
    /\ ~ snap_params.reset
    /\ IF check_memory_availbilty(snap_free_mb)
       THEN /\ snap_cmd' = snap_general_option(snap_params)
            /\ snpc' = "built"
            /\ UNCHANGED snap_result
       ELSE /\ snap_result' = [how |-> "fail_json", changed |-> FALSE,
                               msg |-> "Memory is less than 8 mb:"]
            /\ snpc' = "ended"
            /\ UNCHANGED snap_cmd
    /\ UNCHANGED <<snap_params, snap_free_mb, snap_out, notSnap>>

\* main runs the command and ends the module
RunSnap ==
    /\ snpc = "built"
    /\ snap_result' =
           IF snap_out.rc # 0
           THEN [how |-> "fail_json", changed |-> FALSE,
                 msg |-> "Unable to run the snap command"]
           ELSE [how |-> "exit_json", changed |-> TRUE,
                 msg |-> "Snap command executed successfully with option"]
    /\ snpc' = "ended"
    /\ UNCHANGED <<snap_params, snap_free_mb, snap_out, snap_cmd, notSnap>>

NextSnap ==
    \/ SnapReset
    \/ BuildSnapCommand
    \/ RunSnap

SpecSnap == InitSnap /\ [][NextSnap]_vars

\* ------------------------------------------------- properties of snap
\* the flags of the command, after the word snap
FlagsOf(cmd) == Tail(cmd)

\* the place of a flag in the order -f -U -i -k -w -S -g -H -D -c
FlagRank ==
    [f \in {"-f", "-U", "-i", "-k", "-w", "-S", "-g", "-H", "-D", "-c"} |->
        CASE f = "-f" -> 1 [] f = "-U" -> 2 [] f = "-i" -> 3 [] f = "-k" -> 4
          [] f = "-w" -> 5 [] f = "-S" -> 6 [] f = "-g" -> 7 [] f = "-H" -> 8
          [] f = "-D" -> 9 [] f = "-c" -> 10]

\* the options under which each flag is asked for
FlagWanted(p) ==
    [f \in DOMAIN FlagRank |->
        CASE f = "-f" -> p.file_system_info
          [] f = "-U" -> p.live_kernel
          [] f = "-i" -> p.installation_info
          [] f = "-k" -> p.kernel_info
          [] f = "-w" -> p.workload_manager_info
          [] f = "-S" -> p.general_info /\ p.security_info
          [] f = "-g" -> p.general_info
          [] f = "-H" -> ~ p.general_info /\ p.hardware_info
          [] f = "-D" -> p.collects_dump
          [] f = "-c" -> p.compress]

\* C21: the command that snap_general_option built is snap -a under all_info,
\* else snap -e under hacmp, else the word snap followed by flags of the fixed
\* order -f -U -i -k -w -S -g -H -D -c, each once and in that order, a flag
\* being there exactly when its option is true (-S needs general_info and
\* security_info, -H needs hardware_info without general_info)
C21_SnapOptionPriority ==
    snpc \in {"built", "ended"} /\ snap_cmd # <<>> =>
        /\ snap_cmd[1] = "snap"
        /\ IF snap_params.all_info THEN snap_cmd = <<"snap", "-a">>
           ELSE IF snap_params.hacmp THEN snap_cmd = <<"snap", "-e">>
           ELSE LET fl == FlagsOf(snap_cmd)
                IN  /\ \A i \in DOMAIN fl : fl[i] \in DOMAIN FlagRank
                    /\ \A i, j \in DOMAIN fl : i < j => FlagRank[fl[i]] < FlagRank[fl[j]]
                    /\ \A f \in DOMAIN FlagRank :
                           (\E i \in DOMAIN fl : fl[i] = f) <=> FlagWanted(snap_params)[f]

\* a command with -S before -g and a later flag was built, with hacmp and
\* all_info off
C21_Witness ==
    /\ snpc = "built"
    /\ snap_cmd = <<"snap", "-f", "-i", "-k", "-w", "-S", "-g", "-c">>
    /\ snap_params.hardware_info

\* all_info won over hacmp
C21_WitnessAll ==
    /\ snpc = "built"
    /\ snap_params.all_info /\ snap_params.hacmp
    /\ snap_cmd = <<"snap", "-a">>

PyNone == [t |-> "none", b |-> FALSE, s |-> ""]

PyBool(b) == [t |-> "bool", b |-> b, s |-> ""]

PyStr(s) == [t |-> "str", b |-> FALSE, s |-> s]

\* Python's str(v)
py_str(v) ==
    CASE v.t = "none" -> "None"
      [] v.t = "bool" -> (IF v.b THEN "True" ELSE "False")
      [] v.t = "str" -> v.s

\* Python's `not v`
py_not(v) ==
    CASE v.t = "none" -> TRUE
      [] v.t = "bool" -> ~ v.b
      [] v.t = "str" -> v.s = ""

\* the value set_attr_value hands to chsec for target_value
chsec_value(target_value) ==
    IF target_value \in {"True", "False"}
    THEN (IF target_value = "True" THEN "true" ELSE "false")
    ELSE target_value

\* target_val of run_chsec
target_val_of(state, v) == IF state = "absent" THEN "" ELSE py_str(v)

\* the attributes of the runs, in the order of module.params: a bool and a str
PwOrder == <<"login", "minlen">>

PwAttrs == {PwOrder[i] : i \in DOMAIN PwOrder}

\* the values given for each attribute
PwGiven ==
    [login |-> {PyNone, PyBool(TRUE), PyBool(FALSE)},
     minlen |-> {PyNone, PyStr(""), PyStr("8"), PyStr("0")}]

\* the values the stanza can hold for each attribute, "" when it has none
PwStored ==
    [login |-> {"", "true", "false"},
     minlen |-> {"", "8", "0"}]

\* nothing but password_rules_policies runs
IdleNotPw ==
    IdleEpkgs /\ IdleMain /\ IdleConv /\ IdleRoute /\ IdleSnap /\ IdleSuma /\ IdleEmgr /\ IdleDl

InitPw ==
    /\ \E state \in {"present", "absent"}, check_mode \in BOOLEAN,
          login \in PwGiven.login, minlen \in PwGiven.minlen :
           pw_params = [state |-> state, check_mode |-> check_mode,
                        attrs |-> [login |-> login, minlen |-> minlen]]
    /\ \E login \in PwStored.login, minlen \in PwStored.minlen :
           secfile = [login |-> login, minlen |-> minlen]
    /\ secfile_before = secfile
    /\ pw_i = 1
    /\ pw_calls = <<>>
    /\ pw_results = [how |-> "", changed |-> FALSE, attrs |-> <<>>]
    /\ IdleNotPw

\* one turn of the loop of run_chsec: the attribute is skipped, or lssec reads
\* its value and, when that differs from the target, chsec sets it (not in
\* check mode); a command that fails ends the module through fail_json
RunChsecAttr ==
    /\ pw_results.how = ""
    /\ pw_i \in DOMAIN PwOrder
    /\ LET attr == PwOrder[pw_i]
           v == pw_params.attrs[attr]
           target_val == target_val_of(pw_params.state, v)
           current_val == secfile[attr]
           lssec == [cmd |-> "lssec", attr |-> attr, value |-> ""]
           chsec == [cmd |-> "chsec", attr |-> attr, value |-> chsec_value(target_val)]
           msg_attr(status) == [attr |-> attr, status |-> status,
                                desired_value |-> target_val,
                                existing_value |-> current_val]
       IN  IF py_not(v)
           THEN /\ pw_i' = pw_i + 1
                /\ UNCHANGED <<secfile, pw_calls, pw_results>>
           ELSE \E lssec_rc \in {0, 1}, chsec_rc \in {0, 1} :
                  IF lssec_rc # 0
                  THEN /\ pw_calls' = Append(pw_calls, lssec)
                       /\ pw_results' = [pw_results EXCEPT !.how = "fail_json"]
                       /\ UNCHANGED <<secfile, pw_i>>
                  ELSE IF current_val = target_val
                  THEN /\ pw_calls' = Append(pw_calls, lssec)
                       /\ pw_results' =
                              [pw_results EXCEPT
                                  !.attrs = Append(@, msg_attr("unchanged"))]
                       /\ pw_i' = pw_i + 1
                       /\ UNCHANGED secfile
                  ELSE IF pw_params.check_mode
                  THEN /\ pw_calls' = Append(pw_calls, lssec)
                       /\ pw_results' =
                              [pw_results EXCEPT
                                  !.changed = TRUE,
                                  !.attrs = Append(@, msg_attr("changed"))]
                       /\ pw_i' = pw_i + 1
                       /\ UNCHANGED secfile
                  ELSE IF chsec_rc # 0
                  THEN /\ pw_calls' = pw_calls \o <<lssec, chsec>>
                       /\ pw_results' = [pw_results EXCEPT !.how = "fail_json"]
                       /\ UNCHANGED <<secfile, pw_i>>
                  ELSE /\ pw_calls' = pw_calls \o <<lssec, chsec>>
                       /\ secfile' = [secfile EXCEPT ![attr] = chsec.value]
                       /\ pw_results' =
                              [pw_results EXCEPT
                                  !.changed = TRUE,
                                  !.attrs = Append(@, msg_attr("changed"))]
                       /\ pw_i' = pw_i + 1
    /\ UNCHANGED <<pw_params, secfile_before, notPw>>

\* main: exit_json(**result)
PwExit ==
    /\ pw_results.how = ""
    /\ pw_i > Len(PwOrder)
    /\ pw_results' = [pw_results EXCEPT !.how = "exit_json"]
    /\ UNCHANGED <<pw_params, secfile, secfile_before, pw_i, pw_calls, notPw>>

NextPw ==
    \/ RunChsecAttr
    \/ PwExit

SpecPw == InitPw /\ [][NextPw]_vars

\* --------------------------- properties of password_rules_policies
\* the attribute was supplied by the user
Supplied(attr) == pw_params.attrs[attr].t # "none"

\* the value the stanza is to hold for a supplied attribute: nothing under
\* state=absent, else the given value as the file writes it
FileTarget(attr) ==
    LET v == pw_params.attrs[attr]
    IN  IF pw_params.state = "absent" THEN ""
        ELSE IF v.t = "bool" THEN (IF v.b THEN "true" ELSE "false")
        ELSE v.s

\* chsec was run for the attribute
ChsecRan(attr) == \E i \in DOMAIN pw_calls : pw_calls[i].cmd = "chsec" /\ pw_calls[i].attr = attr

\* C23: when password_rules_policies ends through exit_json outside check
\* mode, every supplied attribute holds its target (the given value under
\* state=present, a boolean given as false included; nothing under
\* state=absent), and chsec was run for an attribute exactly when the value
\* the stanza held before differed from that target
C23_SuppliedAttrsReachTarget ==
    pw_results.how = "exit_json" /\ ~ pw_params.check_mode =>
        \A attr \in PwAttrs :
            Supplied(attr) =>
                /\ secfile[attr] = FileTarget(attr)
                /\ ChsecRan(attr) <=> (secfile_before[attr] # FileTarget(attr))

\* ==================================================== the suma module
\* an oslevel is the word Latest (or blank), or groups of digits joined by "-"
OsLatest == [latest |-> TRUE, groups |-> <<>>]

OsLevel(groups) == [latest |-> FALSE, groups |-> groups]

\* the lengths of the groups of digits
group_lengths(groups) == [i \in DOMAIN groups |-> Len(groups[i])]

\* the group is made of zeros only
all_zero(g) == \A i \in DOMAIN g : g[i] = 0

\* re.match(r"^[0-9]{4}(|-00|-00-00|-00-00-0000)$", oslevel)
match_zero_level(groups) ==
    /\ group_lengths(groups) \in {<<4>>, <<4, 2>>, <<4, 2, 2>>, <<4, 2, 2, 4>>}
    /\ \A i \in 2..Len(groups) : all_zero(groups[i])

\* re.match(r"^[0-9]{4}-[0-9]{2}(|-[0-9]{2}|-[0-9]{2}-[0-9]{4})$", oslevel)
match_level_format(groups) ==
    group_lengths(groups) \in {<<4, 2>>, <<4, 2, 2>>, <<4, 2, 2, 4>>}

\* compute_rq_type(oslevel, last_sp)
compute_rq_type(oslevel, last_sp) ==
    IF oslevel.latest THEN "Latest"
    ELSE LET g == oslevel.groups
             l == group_lengths(g)
         IN  IF l = <<4, 2>> /\ last_sp THEN "SP"
             ELSE IF l \in {<<4, 2>>, <<4, 2, 2>>, <<4, 2, 2, 4>>}
                     /\ \A i \in 3..Len(g) : all_zero(g[i])
             THEN "TL"
             ELSE IF l \in {<<4, 2, 2>>, <<4, 2, 2, 4>>} THEN "SP"
             ELSE "ERROR"

\* compute_rq_name needs a suma Metadata request to find the service pack
needs_metadata(rq_type, oslevel) ==
    /\ rq_type = "SP"
    /\ group_lengths(oslevel.groups) # <<4, 2, 2, 4>>

\* a faulty variant of preview_ends: action=preview goes on like download
preview_ends_when_empty(p, counts) ==
    counts.downloaded = 0 /\ counts.skipped = 0

\* suma_download returns after the preview: the action is preview, or
\* nothing is to download
preview_ends(p, counts) ==
    \/ p.action = "preview"
    \/ counts.downloaded = 0 /\ counts.skipped = 0

\* the oslevel values of the runs
OsLevelPool ==
    {OsLatest,
     OsLevel(<< <<7, 2, 0, 0>> >>),
     OsLevel(<< <<7, 2, 0, 0>>, <<0, 0>> >>),
     OsLevel(<< <<7, 2>>, <<0, 3>> >>),
     OsLevel(<< <<7, 2, 0, 0>>, <<0, 3>> >>),
     OsLevel(<< <<7, 2, 0, 0>>, <<0, 3>>, <<0, 0>> >>),
     OsLevel(<< <<7, 2, 0, 0>>, <<0, 3>>, <<0, 0>>, <<0, 0, 0, 0>> >>),
     OsLevel(<< <<7, 2, 0, 0>>, <<0, 3>>, <<0, 2>> >>),
     OsLevel(<< <<7, 2, 0, 0>>, <<0, 3>>, <<0, 2>>, <<1, 8, 4, 6>> >>)}

\* the numbers a summary of suma can hold
CountPool == {0, 1, 2}

\* the summaries parsed from stdout of a suma request
SummaryPool ==
    {[downloaded |-> d, failed |-> f, skipped |-> s] :
        d \in CountPool, f \in {0, 1}, s \in {0, 1}}

\* nothing but suma runs
IdleNotSuma ==
    IdleEpkgs /\ IdleMain /\ IdleConv /\ IdleRoute /\ IdleSnap /\ IdlePw /\ IdleEmgr /\ IdleDl

InitSuma ==
    /\ \E action \in {"preview", "download"}, oslevel \in OsLevelPool,
          last_sp \in BOOLEAN, download_dir \in {"", "/usr/sys/inst.images"},
          download_only \in BOOLEAN, check_mode \in BOOLEAN :
           suma_params = [action |-> action, oslevel |-> oslevel, last_sp |-> last_sp,
                          download_dir |-> download_dir,
                          download_only |-> download_only, check_mode |-> check_mode]
    /\ supc = "start"
    /\ suma_calls = <<>>
    /\ suma_counts = [downloaded |-> 0, failed |-> 0, skipped |-> 0]
    /\ suma_results = [how |-> "", changed |-> FALSE]
    /\ IdleNotSuma

\* suma_download ends the module through fail_json
suma_fail ==
    /\ supc' = "ended"
    /\ suma_results' = [suma_results EXCEPT !.how = "fail_json"]

\* suma_download checks the format of oslevel and computes the request type
SumaOslevel ==
    /\ supc = "start"
    /\ LET oslevel == suma_params.oslevel
       IN  IF \/ ~ oslevel.latest /\ match_zero_level(oslevel.groups)
              \/ ~ oslevel.latest /\ ~ match_level_format(oslevel.groups)
              \/ compute_rq_type(oslevel, suma_params.last_sp) = "ERROR"
           THEN suma_fail
           ELSE supc' = "rq_name" /\ UNCHANGED suma_results
    /\ UNCHANGED <<suma_params, suma_calls, suma_counts, notSuma>>

\* compute_rq_name, with its Metadata request when the service pack is not
\* spelled out, then the test of download_dir
SumaRqName ==
    /\ supc = "rq_name"
    /\ LET rq_type == compute_rq_type(suma_params.oslevel, suma_params.last_sp)
       IN  IF needs_metadata(rq_type, suma_params.oslevel)
           THEN /\ suma_calls' = Append(suma_calls, "Metadata")
                /\ \E rc \in {0, 1}, sp_found \in BOOLEAN :
                       IF rc # 0 \/ ~ sp_found \/ suma_params.download_dir = ""
                       THEN suma_fail
                       ELSE supc' = "preview" /\ UNCHANGED suma_results
           ELSE /\ UNCHANGED suma_calls
                /\ IF suma_params.download_dir = ""
                   THEN suma_fail
                   ELSE supc' = "preview" /\ UNCHANGED suma_results
    /\ UNCHANGED <<suma_params, suma_counts, notSuma>>

\* suma_command('Preview') and the parsing of its summary
SumaPreview ==
    /\ supc = "preview"
    /\ suma_calls' = Append(suma_calls, "Preview")
    /\ \E rc \in {0, 1}, counts \in SummaryPool :
           IF rc # 0
           THEN suma_fail /\ UNCHANGED suma_counts
           ELSE /\ suma_counts' = counts
                /\ supc' = IF preview_ends(suma_params, counts) THEN "return"
                           ELSE IF counts.downloaded # 0 THEN "download"
                           ELSE "install"
                /\ UNCHANGED suma_results
    /\ UNCHANGED <<suma_params, notSuma>>

\* suma_command('Download') and the parsing of its summary
SumaDownloadRequest ==
    /\ supc = "download"
    /\ suma_calls' = Append(suma_calls, "Download")
    /\ \E rc \in {0, 1}, counts \in SummaryPool :
           IF rc # 0
           THEN suma_fail /\ UNCHANGED suma_counts
           ELSE /\ suma_counts' = counts
                /\ IF counts.downloaded = 0 /\ counts.skipped = 0
                   THEN supc' = "return" /\ UNCHANGED suma_results
                   ELSE /\ supc' = "install"
                        /\ suma_results' =
                               [suma_results EXCEPT
                                   !.changed = @ \/ counts.downloaded # 0]
    /\ UNCHANGED <<suma_params, notSuma>>

\* install_all_updates, unless download_only
SumaInstall ==
    /\ supc = "install"
    /\ IF suma_params.download_only
       THEN /\ supc' = "return"
            /\ UNCHANGED <<suma_calls, suma_results>>
       ELSE /\ suma_calls' = Append(suma_calls, "install_all_updates")
            /\ \E rc \in {0, 1} :
                   IF rc # 0
                   THEN /\ supc' = "ended"
                        /\ suma_results' = [how |-> "fail_json", changed |-> TRUE]
                   ELSE /\ supc' = "return"
                        /\ suma_results' = [suma_results EXCEPT !.changed = TRUE]
    /\ UNCHANGED <<suma_params, suma_counts, notSuma>>

\* main: exit_json(**results)
SumaExit ==
    /\ supc = "return"
    /\ supc' = "ended"
    /\ suma_results' = [suma_results EXCEPT !.how = "exit_json"]
    /\ UNCHANGED <<suma_params, suma_calls, suma_counts, notSuma>>

NextSuma ==
    \/ SumaOslevel
    \/ SumaRqName
    \/ SumaPreview
    \/ SumaDownloadRequest
    \/ SumaInstall
    \/ SumaExit

SpecSuma == InitSuma /\ [][NextSuma]_vars

\* -------------------------------------------------- properties of suma
\* the places of a command in the commands run
PlacesOf(c) == {i \in DOMAIN suma_calls : suma_calls[i] = c}

\* C24: under action=preview the suma Download request and
\* install_all_updates are never run (the requests run are Preview, once at
\* most, and the Metadata request that finds the service pack); under
\* action=download with download_only, install_all_updates is never run; and
\* in every run a Preview request comes before any Download request and
\* both come before any install_all_updates
C24_PreviewDownloadInstall ==
    /\ suma_params.action = "preview" =>
           /\ PlacesOf("Download") = {}
           /\ PlacesOf("install_all_updates") = {}
           /\ Cardinality(PlacesOf("Preview")) <= 1
           /\ \A i \in DOMAIN suma_calls : suma_calls[i] \in {"Metadata", "Preview"}
    /\ suma_params.action = "download" /\ suma_params.download_only =>
           PlacesOf("install_all_updates") = {}
    /\ \A d \in PlacesOf("Download") : \E p \in PlacesOf("Preview") : p < d
    /\ \A i \in PlacesOf("install_all_updates") :
           /\ \E p \in PlacesOf("Preview") : p < i
           /\ \A d \in PlacesOf("Download") : d < i

\* a preview that found files to download ended with the Preview request alone
C24_Witness ==
    /\ suma_params.action = "preview"
    /\ supc = "ended"
    /\ suma_results.how = "exit_json"
    /\ suma_counts.downloaded > 0
    /\ suma_calls = <<"Preview">>

\* a download with download_only ended after the Download request
C24_WitnessDownloadOnly ==
    /\ suma_params.action = "download" /\ suma_params.download_only
    /\ supc = "ended"
    /\ suma_results.how = "exit_json"
    /\ suma_calls = <<"Metadata", "Preview", "Download">>

\* a download ran the three commands in order
C24_WitnessInstall ==
    /\ suma_params.action = "download"
    /\ suma_calls = <<"Preview", "Download", "install_all_updates">>

\* C25: in a run of suma under Ansible check mode no suma Download request
\* and no install_all_updates is run, and the module reports no change
C25_CheckModeChangesNothing ==
    suma_params.check_mode =>
        /\ PlacesOf("Download") = {}
        /\ PlacesOf("install_all_updates") = {}
        /\ ~ suma_results.changed

\* ==================================================== the emgr module
\* module.params[param] is not None and module.params[param]
param_set(p, param) ==
    CASE param = "ifix_package" -> p.ifix_package # ""
      [] param = "list_file" -> p.list_file # ""
      [] param = "ifix_label" -> p.ifix_label # ""
      [] param = "ifix_number" -> FALSE
      [] param = "ifix_vuid" -> FALSE
      [] param = "from_epkg" -> p.from_epkg
      [] param = "commit" -> p.commit

\* the loop of param_one_of: count goes to 1 at the first parameter that is
\* set and the loop is left
count_one_of(p, one_of_list) ==
    IF \E i \in DOMAIN one_of_list : param_set(p, one_of_list[i]) THEN 1 ELSE 0

\* param_one_of(one_of_list, required, exclusive): "" when it returns, else
\* the message it fails with
param_one_of(p, one_of_list, required, exclusive) ==
    LET count == count_one_of(p, one_of_list)
    IN  IF count = 0 /\ required THEN "Missing parameter"
        ELSE IF count > 1 /\ exclusive THEN "Invalid parameter"
        ELSE ""

\* a call of param_one_of as main makes it
OneOf(one_of_list, required) ==
    [list |-> one_of_list, required |-> required, exclusive |-> TRUE]

\* the flag -p of the commands that have a preview mode
preview_flag(p) == IF p.check_mode \/ p.preview THEN <<"-p">> ELSE <<>>

\* what main has when the command is built: the calls of param_one_of made,
\* the command, and how the module ended if it did
Built(checks, cmd) == [checks |-> checks, cmd |-> cmd, how |-> "", msg |-> ""]

Ended(checks, how, msg) == [checks |-> checks, cmd |-> <<>>, how |-> how, msg |-> msg]

\* main up to the end of one branch that calls param_one_of once and then
\* builds cmd
one_check_then(p, check, cmd) ==
    LET r == param_one_of(p, check.list, check.required, check.exclusive)
    IN  IF r # "" THEN Ended(<<check>>, "fail_json", r) ELSE Built(<<check>>, cmd)

\* the option that names the fix: -L label, else -f list_file
by_label_or_file(p) ==
    IF p.ifix_label # "" THEN <<"-L", p.ifix_label>>
    ELSE IF p.list_file # "" THEN <<"-f", p.list_file>>
    ELSE <<>>

\* main, action install
build_install(p, installed) ==
    IF p.ifix_package # "" /\ installed
    THEN Ended(<<>>, "exit_json", "This ifix is already installed. Nothing to do.")
    ELSE LET first == OneOf(<<"ifix_package", "list_file">>, TRUE)
             second == OneOf(<<"from_epkg", "commit">>, TRUE)
             r1 == param_one_of(p, first.list, first.required, first.exclusive)
             r2 == param_one_of(p, second.list, second.required, second.exclusive)
             tail == (IF p.commit THEN <<"-C">> ELSE <<>>) \o preview_flag(p)
                     \o (IF p.force THEN <<"-o">> ELSE <<>>)
         IN  IF r1 # "" THEN Ended(<<first>>, "fail_json", r1)
             ELSE IF p.list_file # ""
             THEN Built(<<first>>, <<"emgr", "-f", p.list_file>> \o tail)
             ELSE IF p.from_epkg
             THEN IF r2 # "" THEN Ended(<<first, second>>, "fail_json", r2)
                  ELSE Built(<<first, second>>, <<"emgr", "-e", p.ifix_package>> \o tail)
             ELSE Built(<<first>>, <<"emgr", "-i", p.ifix_package>> \o tail)

\* main, action commit
build_commit(p) ==
    one_check_then(p, OneOf(<<"ifix_label", "ifix_package", "list_file">>, TRUE),
        <<"emgr", "-C">>
        \o (IF p.ifix_label # "" THEN <<"-L", p.ifix_label>>
            ELSE IF p.ifix_package # "" THEN <<"-i", p.ifix_package>>
            ELSE IF p.list_file # "" THEN <<"-f", p.list_file>>
            ELSE <<>>)
        \o preview_flag(p))

\* main, action check
build_check(p) ==
    one_check_then(p,
        OneOf(<<"ifix_label", "ifix_number", "ifix_vuid", "list_file">>, TRUE),
        <<"emgr", "-c">> \o by_label_or_file(p))

\* main, action remove
build_remove(p, installed) ==
    IF p.ifix_package # "" /\ ~ installed
    THEN Ended(<<>>, "exit_json", "This ifix is NOT installed in the system. Nothing to do.")
    ELSE IF p.force
    THEN IF p.ifix_label = ""
         THEN Ended(<<>>, "fail_json", "Missing parameter: force remove requires: ifix_label")
         ELSE Built(<<>>, <<"emgr", "-R", p.ifix_label>>)
    ELSE one_check_then(p,
             OneOf(<<"ifix_label", "ifix_number", "ifix_vuid", "list_file">>, TRUE),
             <<"emgr", "-r">> \o by_label_or_file(p) \o preview_flag(p))

\* main, action list
build_list(p) ==
    one_check_then(p, OneOf(<<"ifix_label", "ifix_number", "ifix_vuid">>, FALSE),
        <<"emgr", "-l">> \o (IF p.ifix_label # "" THEN <<"-L", p.ifix_label>> ELSE <<>>))

\* the condition under which main runs the command
runs_command(p) ==
    \/ ~ p.check_mode
    \/ /\ p.action \in {"install", "commit", "check", "view_package", "display_ifix", "list"}
       /\ p.action = "remove" /\ ~ p.force

\* nothing but emgr runs
IdleNotEmgr ==
    IdleEpkgs /\ IdleMain /\ IdleConv /\ IdleRoute /\ IdleSnap /\ IdlePw /\ IdleSuma /\ IdleDl

\* AnsibleModule lets at most one of ifix_package, ifix_label, list_file in
InitEmgr ==
    /\ \E action \in {"install", "commit", "check", "remove", "list"},
          named \in {<<"", "", "">>, <<"/tmp/IJ1.epkg.Z", "", "">>, <<"", "IJ1", "">>,
                     <<"", "", "/tmp/fixes.lst">>},
          from_epkg \in BOOLEAN, commit \in BOOLEAN, force \in BOOLEAN,
          preview \in BOOLEAN, check_mode \in BOOLEAN :
           emgr_params = [action |-> action, ifix_package |-> named[1],
                          ifix_label |-> named[2], list_file |-> named[3],
                          from_epkg |-> from_epkg, commit |-> commit, force |-> force,
                          preview |-> preview, check_mode |-> check_mode]
    /\ empc = "start"
    /\ emgr_checks = <<>>
    /\ emgr_cmd = <<>>
    /\ emgr_ran = <<>>
    /\ emgr_results = [how |-> "", changed |-> FALSE, msg |-> ""]
    /\ IdleNotEmgr

\* main checks the parameters and builds the command of the action
EmgrBuild ==
    /\ empc = "start"
    /\ \E installed \in BOOLEAN :
         LET p == emgr_params
             b == CASE p.action = "install" -> build_install(p, installed)
                    [] p.action = "commit" -> build_commit(p)
                    [] p.action = "check" -> build_check(p)
                    [] p.action = "remove" -> build_remove(p, installed)
                    [] p.action = "list" -> build_list(p)
         IN  /\ emgr_checks' = b.checks
             /\ emgr_cmd' = b.cmd
             /\ IF b.how = ""
                THEN empc' = "built" /\ UNCHANGED emgr_results
                ELSE /\ empc' = "ended"
                     /\ emgr_results' = [how |-> b.how, changed |-> FALSE, msg |-> b.msg]
    /\ UNCHANGED <<emgr_params, emgr_ran, notEmgr>>

\* main runs the command, or skips it, and ends the module
EmgrRun ==
    /\ empc = "built"
    /\ IF runs_command(emgr_params)
       THEN /\ emgr_ran' = Append(emgr_ran, emgr_cmd)
            /\ \E rc \in {0, 1}, no_efix_data \in BOOLEAN, some_succeeded \in BOOLEAN :
                 emgr_results' =
                   IF rc = 0 /\ no_efix_data
                   THEN [how |-> "exit_json", changed |-> FALSE, msg |-> ""]
                   ELSE IF rc # 0 /\ emgr_params.list_file # "" /\ some_succeeded
                   THEN [how |-> "exit_json", changed |-> TRUE,
                         msg |-> "Action performed successfuly"]
                   ELSE IF rc # 0
                   THEN [how |-> "fail_json", changed |-> FALSE, msg |-> "Command failed"]
                   ELSE [how |-> "exit_json",
                         changed |-> /\ emgr_params.action \in
                                            {"install", "commit", "mount", "unmount", "remove"}
                                     /\ ~ emgr_params.preview
                                     /\ ~ emgr_params.check_mode,
                         msg |-> "Command successful."]
       ELSE /\ emgr_results' = [how |-> "exit_json", changed |-> FALSE,
                                msg |-> "Command has no preview mode, execution skipped."]
            /\ UNCHANGED emgr_ran
    /\ empc' = "ended"
    /\ UNCHANGED <<emgr_params, emgr_checks, emgr_cmd, notEmgr>>

NextEmgr ==
    \/ EmgrBuild
    \/ EmgrRun

SpecEmgr == InitEmgr /\ [][NextEmgr]_vars

\* -------------------------------------------------- properties of emgr
\* how many of the listed parameters are set
NumberSet(one_of_list) ==
    Cardinality({i \in DOMAIN one_of_list : param_set(emgr_params, one_of_list[i])})

\* C29: after each call of param_one_of(list, required, exclusive) that main
\* made, the module has failed with "Missing parameter" if required was true
\* and none of the listed parameters is set, and with "Invalid parameter" if
\* exclusive was true and more than one of them is set
C29_ParamOneOf ==
    \A i \in DOMAIN emgr_checks :
        LET c == emgr_checks[i]
        IN  /\ c.required /\ NumberSet(c.list) = 0 =>
                   emgr_results.how = "fail_json" /\ emgr_results.msg = "Missing parameter"
            /\ c.exclusive /\ NumberSet(c.list) > 1 =>
                   emgr_results.how = "fail_json" /\ emgr_results.msg = "Invalid parameter"

\* ================================ unzip and run_downloader of flrtvc
\* the urls a run hands to run_downloader
MaxUrls == 2

\* the attempts of one extraction from a tar file
MaxExtractAttempts == 3

\* what increase_fs can do: return True, return False (chfs failed), or raise
\* (df failed, and the warning reads mount_point that was never assigned)
IncreaseFsOutcomes == {"True", "False", "raise"}

\* the urls of the report: an epkg file, and tar files with one or two epkgs
UrlPool ==
    {[kind |-> "epkg", name |-> "IJ1.epkg.Z", members |-> <<>>],
     [kind |-> "tar", name |-> "one.tar", members |-> <<"IJ2.epkg.Z">>],
     [kind |-> "tar", name |-> "two.tar", members |-> <<"IJ3.epkg.Z", "IJ4.epkg.Z">>]}

\* the destination files of the urls
NamesOf(urls) == {urls[i].name : i \in DOMAIN urls}

\* nothing but the download functions runs
IdleNotDl ==
    IdleEpkgs /\ IdleMain /\ IdleConv /\ IdleRoute /\ IdleSnap /\ IdlePw /\ IdleSuma /\ IdleEmgr

\* a call of unzip, or a call of run_downloader on distinct urls, some of
\* which may have been downloaded before
InitDl ==
    /\ \E call \in {"unzip", "run_downloader"}, resize_fs \in BOOLEAN, wget \in BOOLEAN,
          urls \in SeqsUpTo(UrlPool, MaxUrls) :
           /\ \A i, j \in DOMAIN urls : i # j => urls[i] # urls[j]
           /\ call = "unzip" => urls = <<>> /\ wget
           /\ dl_params = [call |-> call, resize_fs |-> resize_fs, wget |-> wget,
                           urls |-> urls]
           /\ dlpc = IF call = "unzip" THEN "unzip" ELSE "url"
    /\ dl_files \in SUBSET NamesOf(dl_params.urls)
    /\ dl_i = 1
    /\ dl_m = 0
    /\ dl_attempt = 0
    /\ dl_existed = FALSE
    /\ dl_last_rc = -1
    /\ dl_ret = "none"
    /\ dl_extracted = {}
    /\ dl_download = <<>>
    /\ IdleNotDl

\* unzip: one extractall; when it raises and resize_fs is set, increase_fs is
\* called, else unzip gives up
Unzip1 ==
    /\ dlpc = "unzip"
    /\ \E ok \in BOOLEAN :
           IF ok THEN dl_ret' = "True" /\ dlpc' = "done"
           ELSE IF ~ dl_params.resize_fs THEN dl_ret' = "False" /\ dlpc' = "done"
           ELSE dl_ret' = "none" /\ dlpc' = "unzip_increase_fs"
    /\ UNCHANGED <<dl_params, dl_i, dl_m, dl_attempt, dl_files, dl_existed, dl_last_rc,
                   dl_extracted, dl_download, notDl>>

\* increase_fs called by unzip: when it worked unzip calls itself
UnzipIncreaseFs ==
    /\ dlpc = "unzip_increase_fs"
    /\ \E inc \in IncreaseFsOutcomes :
           CASE inc = "True" -> dl_ret' = "none" /\ dlpc' = "unzip"
             [] inc = "False" -> dl_ret' = "False" /\ dlpc' = "done"
             [] inc = "raise" -> dl_ret' = "none" /\ dlpc' = "crashed"
    /\ UNCHANGED <<dl_params, dl_i, dl_m, dl_attempt, dl_files, dl_existed, dl_last_rc,
                   dl_extracted, dl_download, notDl>>

\* run_downloader takes the next url and calls download: the file is there,
\* or wget is missing, or wget is to run
DownloadCall ==
    /\ dlpc = "url"
    /\ dl_i \in DOMAIN dl_params.urls
    /\ LET dst == dl_params.urls[dl_i].name
       IN  /\ dl_existed' = (dst \in dl_files)
           /\ dl_last_rc' = -1
           /\ IF dst \in dl_files THEN dl_ret' = "True" /\ dlpc' = "downloaded"
              ELSE IF ~ dl_params.wget THEN dl_ret' = "False" /\ dlpc' = "downloaded"
              ELSE dl_ret' = "none" /\ dlpc' = "wget"
    /\ UNCHANGED <<dl_params, dl_i, dl_m, dl_attempt, dl_files, dl_extracted, dl_download,
                   notDl>>

\* download runs wget; on exit code 3 with resize_fs increase_fs is called;
\* exit code 3 without it leaves res at True
Wget ==
    /\ dlpc = "wget"
    /\ \E rc \in {0, 1, 3}, written \in BOOLEAN :
         LET dst == dl_params.urls[dl_i].name
         IN  /\ dl_last_rc' = rc
             /\ dl_files' = IF rc = 0 \/ written THEN dl_files \cup {dst} ELSE dl_files
             /\ IF rc = 3 /\ dl_params.resize_fs
                THEN dl_ret' = "none" /\ dlpc' = "wget_increase_fs"
                ELSE /\ dl_ret' = IF rc \in {0, 3} THEN "True" ELSE "False"
                     /\ dlpc' = "downloaded"
    /\ UNCHANGED <<dl_params, dl_i, dl_m, dl_attempt, dl_existed, dl_extracted,
                   dl_download, notDl>>

\* increase_fs called by download: when it worked dst is removed (which
\* raises if wget left no file) and download calls itself; when it did not,
\* res is still True
WgetIncreaseFs ==
    /\ dlpc = "wget_increase_fs"
    /\ \E inc \in IncreaseFsOutcomes :
         LET dst == dl_params.urls[dl_i].name
         IN  CASE inc = "True" /\ dst \in dl_files ->
                    dl_files' = dl_files \ {dst} /\ dl_ret' = "none" /\ dlpc' = "wget"
               [] inc = "True" /\ dst \notin dl_files ->
                    dl_ret' = "none" /\ dlpc' = "crashed" /\ UNCHANGED dl_files
               [] inc = "False" ->
                    dl_ret' = "True" /\ dlpc' = "downloaded" /\ UNCHANGED dl_files
               [] inc = "raise" ->
                    dl_ret' = "none" /\ dlpc' = "crashed" /\ UNCHANGED dl_files
    /\ UNCHANGED <<dl_params, dl_i, dl_m, dl_attempt, dl_existed, dl_last_rc,
                   dl_extracted, dl_download, notDl>>

\* run_downloader after download returned: an epkg is added to '3.download',
\* a tar file is opened
AfterDownload ==
    /\ dlpc = "downloaded"
    /\ LET url == dl_params.urls[dl_i]
       IN  IF dl_ret # "True"
           THEN /\ dl_i' = dl_i + 1
                /\ dlpc' = "url"
                /\ UNCHANGED <<dl_m, dl_download>>
           ELSE IF url.kind = "epkg"
           THEN /\ dl_download' = Append(dl_download, url.name)
                /\ dl_i' = dl_i + 1
                /\ dlpc' = "url"
                /\ UNCHANGED dl_m
           ELSE IF url.name \notin dl_files
           THEN /\ dlpc' = "crashed"
                /\ UNCHANGED <<dl_i, dl_m, dl_download>>
           ELSE /\ dl_m' = 1
                /\ dlpc' = "extract"
                /\ UNCHANGED <<dl_i, dl_download>>
    /\ dl_attempt' = 0
    /\ UNCHANGED <<dl_params, dl_files, dl_existed, dl_last_rc, dl_ret, dl_extracted, notDl>>

\* the epkg goes to '3.download' after this attempt: the extraction worked,
\* or it failed without resize_fs and the loop of attempts was left by break
extract_forwards(ok, resize_fs) == ok \/ ~ resize_fs

\* one attempt of tar.extract for the epkg at dl_m, or the end of the tar file
Extract ==
    /\ dlpc = "extract"
    /\ LET members == dl_params.urls[dl_i].members
       IN  IF dl_m > Len(members)
           THEN /\ dl_i' = dl_i + 1
                /\ dlpc' = "url"
                /\ UNCHANGED <<dl_m, dl_extracted, dl_download>>
           ELSE \E ok \in BOOLEAN :
                  LET epkg == members[dl_m]
                  IN  IF extract_forwards(ok, dl_params.resize_fs)
                      THEN /\ dl_extracted' = IF ok THEN dl_extracted \cup {epkg}
                                              ELSE dl_extracted
                           /\ dl_download' = Append(dl_download, epkg)
                           /\ dl_m' = dl_m + 1
                           /\ UNCHANGED <<dl_i, dlpc>>
                      ELSE /\ dlpc' = "extract_increase_fs"
                           /\ UNCHANGED <<dl_i, dl_m, dl_extracted, dl_download>>
    /\ dl_attempt' = 0
    /\ UNCHANGED <<dl_params, dl_files, dl_existed, dl_last_rc, dl_ret, notDl>>

\* another attempt of tar.extract for the same epkg
ExtractAgain ==
    /\ dlpc = "extract_again"
    /\ \E ok \in BOOLEAN :
         LET epkg == dl_params.urls[dl_i].members[dl_m]
         IN  IF extract_forwards(ok, dl_params.resize_fs)
             THEN /\ dl_extracted' = IF ok THEN dl_extracted \cup {epkg} ELSE dl_extracted
                  /\ dl_download' = Append(dl_download, epkg)
                  /\ dl_m' = dl_m + 1
                  /\ dl_attempt' = 0
                  /\ dlpc' = "extract"
             ELSE /\ dlpc' = "extract_increase_fs"
                  /\ UNCHANGED <<dl_m, dl_attempt, dl_extracted, dl_download>>
    /\ UNCHANGED <<dl_params, dl_i, dl_files, dl_existed, dl_last_rc, dl_ret, notDl>>

\* increase_fs called after a failed extraction, whose result is not read:
\* the next attempt follows, and after the last one the epkg is left out
ExtractIncreaseFs ==
    /\ dlpc = "extract_increase_fs"
    /\ \E inc \in IncreaseFsOutcomes :
           IF inc = "raise"
           THEN dlpc' = "crashed" /\ UNCHANGED <<dl_m, dl_attempt>>
           ELSE IF dl_attempt + 1 < MaxExtractAttempts
           THEN dl_attempt' = dl_attempt + 1 /\ dlpc' = "extract_again" /\ UNCHANGED dl_m
           ELSE dl_m' = dl_m + 1 /\ dl_attempt' = 0 /\ dlpc' = "extract"
    /\ UNCHANGED <<dl_params, dl_i, dl_files, dl_existed, dl_last_rc, dl_ret,
                   dl_extracted, dl_download, notDl>>

\* the urls are through: run_downloader goes on to check_epkgs
DownloaderEnd ==
    /\ dlpc = "url"
    /\ dl_i > Len(dl_params.urls)
    /\ dlpc' = "done"
    /\ UNCHANGED <<dl_params, dl_i, dl_m, dl_attempt, dl_files, dl_existed, dl_last_rc,
                   dl_ret, dl_extracted, dl_download, notDl>>

NextDl ==
    \/ Unzip1
    \/ UnzipIncreaseFs
    \/ DownloadCall
    \/ Wget
    \/ WgetIncreaseFs
    \/ AfterDownload
    \/ Extract
    \/ ExtractAgain
    \/ ExtractIncreaseFs
    \/ DownloaderEnd

SpecDl == InitDl /\ [][NextDl]_vars

\* the function is never held up: a step that can be taken is taken
SpecDlFair == SpecDl /\ WF_vars(NextDl)

\* ------------------------- properties of download, unzip, run_downloader
\* C26: when download returns, it returns True exactly when the destination
\* file was there at the call or the last wget exited with code 0; every other
\* outcome (wget missing, another exit code, exit code 3 without resize_fs or
\* with a resize that failed) returns False
C26_DownloadTrueOnlyIfFetched ==
    dlpc = "downloaded" => (dl_ret = "True" <=> (dl_existed \/ dl_last_rc = 0))

\* the epkgs that come out of tar files
TarMembers ==
    UNION {{u.members[i] : i \in DOMAIN u.members} : u \in UrlPool}

\* C27: every epkg of a tar file that run_downloader put on '3.download' was
\* extracted with success
C27_OnlyExtractedForwarded ==
    \A i \in DOMAIN dl_download :
        dl_download[i] \in TarMembers => dl_download[i] \in dl_extracted

\* C28: every call of unzip and of run_downloader comes to an end whatever
\* the commands return, no extraction being tried more than 3 times
C28_RetryLoopsTerminate ==
    /\ [](dl_attempt < MaxExtractAttempts)
    /\ <>(dlpc \in {"done", "crashed"})

====
